---------------------------- MODULE Spec2Model ----------------------------
(***************************************************************************)
(* The Stopfinder API client (custom_components/stopfinder/api.py) as a    *)
(* state machine.  The state is the client object's session fields plus    *)
(* the position of the one call in progress; every action is one upstream  *)
(* round trip (request, response, and the handler code up to the next      *)
(* await) or the entry of a public coroutine up to its first await.        *)
(* The upstream's answers are the inputs, drawn from small sets.           *)
(***************************************************************************)
EXTENDS Integers, Sequences, FiniteSets, TLC

(***************************************************************************)
(* Bounds.                                                                 *)
(***************************************************************************)
\* Public calls made on one client object in one behaviour.
MaxCalls == 3

(***************************************************************************)
(* Python values.                                                          *)
(***************************************************************************)
\* Python's None.  No upstream value of the model equals it.
None == "<None>"

\* Python truthiness of an optional string: `if x` / `if not x`.
Truthy(x) == x # None /\ x # ""

\* JSON values as decoded by response.json().
JObj(fields) == [type |-> "object", fields |-> fields]
JList(items) == [type |-> "list", items |-> items]

\* dict.get(key), default None.
DictGet(d, key) == IF key \in DOMAIN d.fields THEN d.fields[key] ELSE None

\* str.strip(): leading and trailing whitespace removed.
IsSpace(c) == c \in {" ", "\t", "\n", "\r"}

RECURSIVE LStrip(_)
LStrip(s) ==
    IF Len(s) > 0 /\ IsSpace(SubSeq(s, 1, 1))
    THEN LStrip(SubSeq(s, 2, Len(s)))
    ELSE s

RECURSIVE RStrip(_)
RStrip(s) ==
    IF Len(s) > 0 /\ IsSpace(SubSeq(s, Len(s), Len(s)))
    THEN RStrip(SubSeq(s, 1, Len(s) - 1))
    ELSE s

Strip(s) == RStrip(LStrip(s))

\* str.startswith(prefix).
StartsWith(s, prefix) ==
    Len(s) >= Len(prefix) /\ SubSeq(s, 1, Len(prefix)) = prefix

(***************************************************************************)
(* The exception classes (api.py 17-26) and what a call can end with.      *)
(***************************************************************************)
StopfinderApiError == "StopfinderApiError"
StopfinderAuthError == "StopfinderAuthError"
StopfinderConnectionError == "StopfinderConnectionError"

\* asyncio.TimeoutError / CancelledError: raised by the transport, not a
\* subclass of aiohttp.ClientError and not a StopfinderApiError.
TransportTimeout == "TimeoutError"

\* homeassistant.helpers.update_coordinator.UpdateFailed.
UpdateFailed == "UpdateFailed"

\* `except StopfinderApiError` narrowed to the two subclasses.
IsAuthOrConnectionError(kind) ==
    kind \in {StopfinderAuthError, StopfinderConnectionError}

\* isinstance(err, StopfinderApiError): the base class and its two subclasses.
IsStopfinderApiError(kind) ==
    kind \in {StopfinderApiError, StopfinderAuthError, StopfinderConnectionError}

\* An exception: its class, the fixed part of its message, and the status
\* code the message cites (0: the message cites none).
Err(kind, msg, status) == [kind |-> kind, msg |-> msg, status |-> status]
NoErr == [kind |-> "none", msg |-> "", status |-> 0]
Returned(value) == [kind |-> "return", value |-> value]
Running == [kind |-> "running"]
NoCall == [kind |-> "nocall"]

(***************************************************************************)
(* The upstream's answers.                                                 *)
(***************************************************************************)
\* A round trip ends with a response, with an aiohttp.ClientError, or with
\* a timeout/cancellation of the transport.
Resp(status, body) == [transport |-> "response", status |-> status, body |-> body]
ClientErrorAns == [transport |-> "ClientError", status |-> 0, body |-> None]
TimeoutAns == [transport |-> "TimeoutError", status |-> 0, body |-> None]
TransportFailures == {ClientErrorAns, TimeoutAns}
NoAnswer == [transport |-> "none", status |-> 0, body |-> None]

DiscoveryStatuses == {200, 204, 500}
DiscoveryBodies ==
    { "  https://svc.example.com/api  ",
      "https://x",
      "{\"sfApiUri\": \"https://x\"}",
      "<html>not found</html>",
      "" }
DiscoveryAnswers ==
    {Resp(st, b) : st \in DiscoveryStatuses, b \in DiscoveryBodies}
        \cup TransportFailures

TokenStatuses == {200, 201, 202, 400, 401, 500}
TokenBodies ==
    { JObj(<<>>),
      JObj([token |-> ""]),
      JObj([token |-> "abc"]),
      JObj([token |-> "xyz"]) }
TokenAnswers ==
    {Resp(st, b) : st \in TokenStatuses, b \in TokenBodies}
        \cup TransportFailures

VersionsStatuses == {200, 201, 500}
VersionsBodies ==
    { JObj([message |-> "error"]),
      JList(<<>>),
      JList(<<JObj([clientId |-> "c1"])>>),
      JList(<<JObj([clientId |-> "c2"]), JObj([clientId |-> "c1"])>>),
      JList(<<JObj([version |-> "1.1"])>>) }
VersionsAnswers ==
    {Resp(st, b) : st \in VersionsStatuses, b \in VersionsBodies}
        \cup TransportFailures

ScheduleStatuses == {200, 401, 500, 503}

\* Bodies of a 200 schedule response: no day at all, or one day with one
\* student and one trip.
ScheduleBodies ==
    { JList(<<>>),
      JList(<< JObj([date |-> "2024-03-10T00:00:00",
                     studentSchedules |->
                        << JObj([riderId |-> "R1", firstName |-> "Ann",
                                 trips |-> << JObj([name |-> "AM Route",
                                                    pickUpTime |-> "1899-12-30T08:15:00",
                                                    toSchool |-> TRUE]) >>]) >>]) >>),
      JList(<< JObj([date |-> "2024-03-11T00:00:00",
                     studentSchedules |->
                        << JObj([riderId |-> "R2", firstName |-> "Ben",
                                 trips |-> << JObj([name |-> "PM Route",
                                                    dropOffTime |-> "1899-12-30T15:40:00",
                                                    adjustMinutes |-> -10]) >>]) >>]) >>) }

ScheduleAnswers ==
    {Resp(200, body) : body \in ScheduleBodies}
        \cup {Resp(st, JList(<<>>)) : st \in ScheduleStatuses \ {200}}
        \cup TransportFailures

\* The resolved date range of a get_schedules call: date_start (default
\* now) and date_end (default start + 7 days) after strftime("%Y-%m-%d").
DateRanges ==
    { [start_str |-> "2024-03-10", end_str |-> "2024-03-17"],
      [start_str |-> "2024-03-11", end_str |-> "2024-03-18"] }
NoDates == [start_str |-> "", end_str |-> ""]

\* The tenant entry point given to the constructor, after rstrip("/").
TenantBaseUrl == "https://www.mytransfinder.com"

(***************************************************************************)
(* State.                                                                  *)
(***************************************************************************)
VARIABLES
    token,          \* self._token
    client_id,      \* self._client_id
    api_base_url,   \* self._api_base_url
    op,             \* the public coroutine running, or the last one that ran
    pc,             \* the await the call is suspended at; "idle" between calls
    dates,          \* get_schedules: start_str, end_str
    url,            \* get_schedules: the local `url`
    trace,          \* the requests issued so far by the current call
    last,           \* the upstream's answer to the latest request
    first_status,   \* get_schedules: response.status of the first request
    result,         \* what the call returned or raised
    exc,            \* the exception the latest step raised inside the client
    granted,        \* the token of the call's latest accepted token response
    entry,          \* the session fields as they were when the call began
    calls,          \* public calls begun so far
    input,          \* the argument of the pure function under study
    output,         \* what that function returned
    previous        \* the students the latest successful earlier poll returned

vars ==
    << token, client_id, api_base_url, op, pc, dates, url, trace, last,
       first_status, result, exc, granted, entry, calls, input, output, previous >>

session == << token, client_id, api_base_url >>

(***************************************************************************)
(* Request construction.                                                   *)
(***************************************************************************)
\* dict lookup on a headers dict, None when the header is absent.
Header(headers, name) == IF name \in DOMAIN headers THEN headers[name] ELSE None

fixed_headers ==
    ("X-Requested-With" :> "com.transfinder.stopfinder")
        @@ ("X-StopfinderApp-Version" :> "3.1.0")

get_headers(include_token) ==
    IF include_token /\ Truthy(token)
    THEN fixed_headers @@ ("Token" :> token)
    ELSE fixed_headers

\* The schedule request sent without the X-Client-Keys header.
schedule_headers_token_only == get_headers(TRUE)

\* headers = self._get_headers(include_token=True), then X-Client-Keys
\* when self._client_id is truthy (first request: 170-172).
schedule_headers ==
    IF Truthy(client_id)
    THEN get_headers(TRUE) @@ ("X-Client-Keys" :> client_id)
    ELSE get_headers(TRUE)

\* A stale-header retry: the headers of the failed first request reused.
retry_headers_stale ==
    LET i == CHOOSE j \in 1..Len(trace) : trace[j].kind = "students"
    IN  trace[i].headers

\* The headers rebuilt after the re-authentication (192-194).
retry_headers == schedule_headers

Request(kind, method, target, headers) ==
    [kind |-> kind, method |-> method, url |-> target, headers |-> headers]

Count(kind) == Cardinality({i \in 1..Len(trace) : trace[i].kind = kind})

Issue(req) == trace' = Append(trace, req)


Answered(kind, ans) ==
    [kind |-> kind, transport |-> ans.transport, status |-> ans.status,
     body |-> ans.body]

(***************************************************************************)
(* Response handling: what each coroutine does with the upstream's answer. *)
(* Each returns the exception raised (NoErr when none) and the value the   *)
(* code stores or returns.                                                 *)
(***************************************************************************)
\* except aiohttp.ClientError -> StopfinderConnectionError; a timeout or a
\* cancellation is no ClientError and passes through the except clause.
transport_error(ans) ==
    IF ans.transport = "ClientError"
    THEN Err(StopfinderConnectionError, "Connection error", 0)
    ELSE Err(TransportTimeout, "", 0)

\* Discovery without data.strip().
stopfinder_base_url_result_unstripped(ans) ==
    IF ans.transport # "response"
    THEN [err |-> transport_error(ans), value |-> None]
    ELSE IF ans.status # 200
    THEN [err |-> Err(StopfinderConnectionError,
                      "Failed to get Stopfinder URL", ans.status),
          value |-> None]
    ELSE IF StartsWith(ans.body, "http")
    THEN [err |-> NoErr, value |-> ans.body]
    ELSE [err |-> Err(StopfinderConnectionError,
                      "Invalid response from Stopfinder discovery", 0),
          value |-> None]

\* Discovery returning whatever a 200 answer's text is, "http" or not.
stopfinder_base_url_result_unvalidated(ans) ==
    IF ans.transport # "response"
    THEN [err |-> transport_error(ans), value |-> None]
    ELSE IF ans.status # 200
    THEN [err |-> Err(StopfinderConnectionError,
                      "Failed to get Stopfinder URL", ans.status),
          value |-> None]
    ELSE [err |-> NoErr, value |-> Strip(ans.body)]

\* _get_stopfinder_base_url, 67-82.
stopfinder_base_url_result(ans) ==
    IF ans.transport # "response"
    THEN [err |-> transport_error(ans), value |-> None]
    ELSE IF ans.status # 200
    THEN [err |-> Err(StopfinderConnectionError,
                      "Failed to get Stopfinder URL", ans.status),
          value |-> None]
    ELSE LET data == Strip(ans.body)
         IN  IF StartsWith(data, "http")
             THEN [err |-> NoErr, value |-> data]
             ELSE [err |-> Err(StopfinderConnectionError,
                               "Invalid response from Stopfinder discovery", 0),
                   value |-> None]

\* The token POST with 400 handled like any other unexpected status and a
\* token-less body accepted.
token_result_lenient(ans) ==
    IF ans.transport # "response"
    THEN [err |-> transport_error(ans), store |-> FALSE, value |-> None]
    ELSE IF ans.status \notin {200, 201}
    THEN [err |-> Err(StopfinderAuthError, "Authentication failed", ans.status),
          store |-> FALSE, value |-> None]
    ELSE [err |-> NoErr, store |-> TRUE, value |-> DictGet(ans.body, "token")]

\* The token POST without the check of 114-115: a 2xx body without a token
\* accepted.
token_result_unchecked(ans) ==
    IF ans.transport # "response"
    THEN [err |-> transport_error(ans), store |-> FALSE, value |-> None]
    ELSE IF ans.status \in {400, 401}
    THEN [err |-> Err(StopfinderAuthError, "Invalid credentials", 0),
          store |-> FALSE, value |-> None]
    ELSE IF ans.status \notin {200, 201}
    THEN [err |-> Err(StopfinderAuthError, "Authentication failed", ans.status),
          store |-> FALSE, value |-> None]
    ELSE [err |-> NoErr, store |-> TRUE, value |-> DictGet(ans.body, "token")]

\* _authenticate, 100-118.  `store` tells whether self._token was assigned.
token_result(ans) ==
    IF ans.transport # "response"
    THEN [err |-> transport_error(ans), store |-> FALSE, value |-> None]
    ELSE IF ans.status \in {400, 401}
    THEN [err |-> Err(StopfinderAuthError, "Invalid credentials", 0),
          store |-> FALSE, value |-> None]
    ELSE IF ans.status \notin {200, 201}
    THEN [err |-> Err(StopfinderAuthError, "Authentication failed", ans.status),
          store |-> FALSE, value |-> None]
    ELSE LET tok == DictGet(ans.body, "token")
         IN  IF ~Truthy(tok)
             THEN [err |-> Err(StopfinderAuthError, "No token in response", 0),
                   store |-> TRUE, value |-> tok]
             ELSE [err |-> NoErr, store |-> TRUE, value |-> tok]

\* The client id read from the last element of the list instead of data[0].
client_id_result_last_element(ans) ==
    IF ans.transport # "response"
    THEN [err |-> transport_error(ans), store |-> FALSE, value |-> None]
    ELSE IF ans.status # 200
    THEN [err |-> Err(StopfinderApiError, "Failed to get API versions", ans.status),
          store |-> FALSE, value |-> None]
    ELSE IF ans.body.type = "list" /\ Len(ans.body.items) > 0
    THEN [err |-> NoErr, store |-> TRUE,
          value |-> DictGet(ans.body.items[Len(ans.body.items)], "clientId")]
    ELSE [err |-> Err(StopfinderApiError, "Invalid API versions response", 0),
          store |-> FALSE, value |-> None]

\* _get_client_id, 127-142.  `store` tells whether self._client_id was assigned.
client_id_result(ans) ==
    IF ans.transport # "response"
    THEN [err |-> transport_error(ans), store |-> FALSE, value |-> None]
    ELSE IF ans.status # 200
    THEN [err |-> Err(StopfinderApiError, "Failed to get API versions", ans.status),
          store |-> FALSE, value |-> None]
    ELSE IF ans.body.type = "list" /\ Len(ans.body.items) > 0
    THEN [err |-> NoErr, store |-> TRUE,
          value |-> DictGet(ans.body.items[1], "clientId")]
    ELSE [err |-> Err(StopfinderApiError, "Invalid API versions response", 0),
          store |-> FALSE, value |-> None]

\* The retry's failure reported with the status of the first response.
retry_failure_first_status(status) ==
    Err(StopfinderApiError, "Failed to get schedules", first_status)

\* get_schedules, 198-205: the retry's failure.
retry_failure(status) ==
    Err(StopfinderApiError, "Failed to get schedules", status)

\* The stale token left in place.
cleared_token_kept == token

\* get_schedules, 190: self._token = None.
cleared_token == None

(***************************************************************************)
(* Python strings and datetimes, as far as the normalisation and the       *)
(* sensors use them.                                                       *)
(***************************************************************************)
\* dict.get(key, default).
DictGetOr(d, key, default) ==
    IF key \in DOMAIN d.fields THEN d.fields[key] ELSE default

\* s[:n] and s[n:] (n >= 0).
Prefix(s, n) == SubSeq(s, 1, IF Len(s) < n THEN Len(s) ELSE n)
Suffix(s, n) == SubSeq(s, n + 1, Len(s))

\* `c in s` for a one-character c.
Contains(s, c) == \E i \in 1..Len(s) : SubSeq(s, i, i) = c

\* str.replace(old, new) for a one-character old.
RECURSIVE Replace(_, _, _)
Replace(s, old, new) ==
    IF Len(s) = 0 THEN s
    ELSE (IF SubSeq(s, 1, 1) = old THEN new ELSE SubSeq(s, 1, 1))
            \o Replace(SubSeq(s, 2, Len(s)), old, new)

Digits == << "0", "1", "2", "3", "4", "5", "6", "7", "8", "9" >>
IsDigit(c) == \E d \in DOMAIN Digits : Digits[d] = c
DigitValue(c) == (CHOOSE d \in DOMAIN Digits : Digits[d] = c) - 1
AllDigits(s) == \A i \in 1..Len(s) : IsDigit(SubSeq(s, i, i))

RECURSIVE Number(_)
Number(s) ==
    IF Len(s) = 0 THEN 0
    ELSE Number(SubSeq(s, 1, Len(s) - 1)) * 10
            + DigitValue(SubSeq(s, Len(s), Len(s)))

\* "%02d" and "%04d".
Pad2(n) == Digits[((n \div 10) % 10) + 1] \o Digits[(n % 10) + 1]
Pad4(n) == Pad2(n \div 100) \o Pad2(n % 100)

\* The proleptic Gregorian calendar of datetime.date.
IsLeap(y) == (y % 4 = 0 /\ y % 100 # 0) \/ y % 400 = 0
DaysInMonth(y, m) ==
    IF m = 2 THEN (IF IsLeap(y) THEN 29 ELSE 28)
    ELSE IF m \in {4, 6, 9, 11} THEN 30 ELSE 31

RECURSIVE DaysBeforeMonth(_, _)
DaysBeforeMonth(y, m) ==
    IF m = 1 THEN 0 ELSE DaysBeforeMonth(y, m - 1) + DaysInMonth(y, m - 1)

\* date.toordinal().
Ordinal(y, m, d) ==
    365 * (y - 1) + ((y - 1) \div 4) - ((y - 1) \div 100) + ((y - 1) \div 400)
        + DaysBeforeMonth(y, m) + d

\* A value fromisoformat() refuses (ValueError).
NotParsed == [ok |-> FALSE]

\* "YYYY-MM-DD".
parse_date(s) ==
    IF /\ Len(s) = 10
       /\ AllDigits(SubSeq(s, 1, 4)) /\ SubSeq(s, 5, 5) = "-"
       /\ AllDigits(SubSeq(s, 6, 7)) /\ SubSeq(s, 8, 8) = "-"
       /\ AllDigits(SubSeq(s, 9, 10))
    THEN LET y == Number(SubSeq(s, 1, 4))
             m == Number(SubSeq(s, 6, 7))
             d == Number(SubSeq(s, 9, 10))
         IN  IF y >= 1 /\ m \in 1..12 /\ d >= 1 /\ d <= DaysInMonth(y, m)
             THEN [ok |-> TRUE, year |-> y, month |-> m, day |-> d]
             ELSE NotParsed
    ELSE NotParsed

\* The UTC offset closing a time: none (naive), "Z", "+HH:MM" or "-HH:MM".
parse_offset(s) ==
    IF s = "" THEN [ok |-> TRUE, aware |-> FALSE, utcoffset |-> 0]
    ELSE IF s = "Z" THEN [ok |-> TRUE, aware |-> TRUE, utcoffset |-> 0]
    ELSE IF /\ Len(s) = 6 /\ SubSeq(s, 1, 1) \in {"+", "-"}
            /\ AllDigits(SubSeq(s, 2, 3)) /\ SubSeq(s, 4, 4) = ":"
            /\ AllDigits(SubSeq(s, 5, 6))
            /\ Number(SubSeq(s, 2, 3)) < 24 /\ Number(SubSeq(s, 5, 6)) < 60
    THEN LET m == Number(SubSeq(s, 2, 3)) * 60 + Number(SubSeq(s, 5, 6))
         IN  [ok |-> TRUE, aware |-> TRUE,
              utcoffset |-> IF SubSeq(s, 1, 1) = "-" THEN 0 - m ELSE m]
    ELSE NotParsed

\* Where the clock part of a time ends: "HH", "HH:MM" or "HH:MM:SS".
clock_length(s) ==
    IF Len(s) >= 8 /\ SubSeq(s, 3, 3) = ":" /\ SubSeq(s, 6, 6) = ":" THEN 8
    ELSE IF Len(s) >= 5 /\ SubSeq(s, 3, 3) = ":" THEN 5
    ELSE 2

\* "HH[:MM[:SS]]" and the offset.  (Fractional seconds, which fromisoformat
\* accepts too, are not among the values the model feeds.)
parse_time(s) ==
    LET n == clock_length(s)
        hh == SubSeq(s, 1, 2)
        mm == IF n >= 5 THEN SubSeq(s, 4, 5) ELSE "00"
        ss == IF n >= 8 THEN SubSeq(s, 7, 8) ELSE "00"
        off == parse_offset(Suffix(s, n))
    IN  IF /\ Len(s) >= 2
           /\ Len(hh) = 2 /\ AllDigits(hh) /\ Number(hh) < 24
           /\ Len(mm) = 2 /\ AllDigits(mm) /\ Number(mm) < 60
           /\ Len(ss) = 2 /\ AllDigits(ss) /\ Number(ss) < 60
           /\ off.ok
        THEN [ok |-> TRUE, hour |-> Number(hh), minute |-> Number(mm),
              second |-> Number(ss), aware |-> off.aware,
              utcoffset |-> off.utcoffset]
        ELSE NotParsed

\* datetime.fromisoformat(s): a date, then optionally one separator
\* character and a time.
fromisoformat(s) ==
    LET date == parse_date(Prefix(s, 10))
        time == IF Len(s) = 10 THEN parse_time("00:00:00")
                ELSE IF Len(s) > 11 THEN parse_time(Suffix(s, 11))
                ELSE NotParsed
    IN  IF Len(s) >= 10 /\ date.ok /\ time.ok
        THEN [ok |-> TRUE, year |-> date.year, month |-> date.month,
              day |-> date.day, hour |-> time.hour, minute |-> time.minute,
              second |-> time.second, aware |-> time.aware,
              utcoffset |-> time.utcoffset]
        ELSE NotParsed

\* datetime.isoformat().
isoformat(dt) ==
    Pad4(dt.year) \o "-" \o Pad2(dt.month) \o "-" \o Pad2(dt.day) \o "T"
        \o Pad2(dt.hour) \o ":" \o Pad2(dt.minute) \o ":" \o Pad2(dt.second)
        \o (IF ~dt.aware THEN ""
            ELSE LET a == IF dt.utcoffset < 0 THEN 0 - dt.utcoffset
                          ELSE dt.utcoffset
                 IN  (IF dt.utcoffset < 0 THEN "-" ELSE "+")
                        \o Pad2(a \div 60) \o ":" \o Pad2(a % 60))

\* The day after and the day before a date.
next_day(dt) ==
    IF dt.day < DaysInMonth(dt.year, dt.month)
    THEN [dt EXCEPT !.day = @ + 1]
    ELSE IF dt.month < 12
    THEN [dt EXCEPT !.month = @ + 1, !.day = 1]
    ELSE [dt EXCEPT !.year = @ + 1, !.month = 1, !.day = 1]

prev_day(dt) ==
    IF dt.day > 1
    THEN [dt EXCEPT !.day = @ - 1]
    ELSE IF dt.month > 1
    THEN [dt EXCEPT !.month = @ - 1,
                    !.day = DaysInMonth(dt.year, dt.month - 1)]
    ELSE [dt EXCEPT !.year = @ - 1, !.month = 12, !.day = 31]

RECURSIVE add_days(_, _)
add_days(dt, n) ==
    IF n = 0 THEN dt
    ELSE IF n > 0 THEN add_days(next_day(dt), n - 1)
    ELSE add_days(prev_day(dt), n + 1)

\* dt + timedelta(minutes=n).  (The model's values stay within the years
\* 1..9999, outside of which Python raises OverflowError.)
add_minutes(dt, n) ==
    LET total == dt.hour * 60 + dt.minute + n
        days == IF total >= 0 THEN total \div 1440
                ELSE 0 - ((1439 - total) \div 1440)
        rest == total - days * 1440
    IN  [add_days(dt, days) EXCEPT !.hour = rest \div 60, !.minute = rest % 60]

(***************************************************************************)
(* Normalisation of the schedule payload (api.py 216-314).                 *)
(***************************************************************************)
\* Date repair that keeps the time's own date.
_fix_date_kept(time_str, schedule_date) == time_str

\* _fix_date, 216-228.
_fix_date(time_str, schedule_date) ==
    IF ~Truthy(time_str) \/ Len(schedule_date) < 10
    THEN time_str
    ELSE IF Len(time_str) >= 10 /\ Contains(time_str, "T")
    THEN schedule_date \o Suffix(time_str, 10)
    ELSE time_str

\* Minute adjustment with the sign of the offset lost.
_adjust_time_forward(time_str, adjust_minutes) ==
    IF ~Truthy(time_str) \/ adjust_minutes = 0
    THEN time_str
    ELSE LET dt == fromisoformat(time_str)
         IN  IF dt.ok
             THEN isoformat(add_minutes(dt, IF adjust_minutes < 0
                                            THEN 0 - adjust_minutes
                                            ELSE adjust_minutes))
             ELSE time_str

\* _adjust_time, 230-240.
_adjust_time(time_str, adjust_minutes) ==
    IF ~Truthy(time_str) \/ adjust_minutes = 0
    THEN time_str
    ELSE LET dt == fromisoformat(time_str)
         IN  IF dt.ok
             THEN isoformat(add_minutes(dt, adjust_minutes))
             ELSE time_str

\* The trip record with "" as default of the time fields too.
trip_record_defaulted(trip, schedule_date) ==
    LET adjust == DictGetOr(trip, "adjustMinutes", 0)
        fixed(key) == _fix_date(DictGetOr(trip, key, ""), schedule_date)
    IN  [name |-> DictGetOr(trip, "name", ""),
         bus_number |-> DictGetOr(trip, "busNumber", ""),
         pickup_time |-> _adjust_time(fixed("pickUpTime"), adjust),
         pickup_stop_name |-> DictGetOr(trip, "pickUpStopName", ""),
         dropoff_time |-> _adjust_time(fixed("dropOffTime"), adjust),
         dropoff_stop_name |-> DictGetOr(trip, "dropOffStopName", ""),
         to_school |-> DictGetOr(trip, "toSchool", FALSE),
         vehicle_id |-> DictGetOr(trip, "vehicleId", ""),
         start_time |-> _adjust_time(fixed("startTime"), adjust),
         finish_time |-> _adjust_time(fixed("finishTime"), adjust)]

\* _parse_schedule_response, 266-313: the record appended for one trip.
trip_record(trip, schedule_date) ==
    LET adjust == DictGetOr(trip, "adjustMinutes", 0)
        raw_pickup == _fix_date(DictGet(trip, "pickUpTime"), schedule_date)
        raw_dropoff == _fix_date(DictGet(trip, "dropOffTime"), schedule_date)
        raw_start == _fix_date(DictGet(trip, "startTime"), schedule_date)
        raw_finish == _fix_date(DictGet(trip, "finishTime"), schedule_date)
        adj_pickup == _adjust_time(raw_pickup, adjust)
        adj_dropoff == _adjust_time(raw_dropoff, adjust)
    IN  [name |-> DictGetOr(trip, "name", ""),
         bus_number |-> DictGetOr(trip, "busNumber", ""),
         pickup_time |-> adj_pickup,
         pickup_stop_name |-> DictGetOr(trip, "pickUpStopName", ""),
         dropoff_time |-> adj_dropoff,
         dropoff_stop_name |-> DictGetOr(trip, "dropOffStopName", ""),
         to_school |-> DictGetOr(trip, "toSchool", FALSE),
         vehicle_id |-> DictGetOr(trip, "vehicleId", ""),
         start_time |-> _adjust_time(raw_start, adjust),
         finish_time |-> _adjust_time(raw_finish, adjust)]

\* 256-264: the record created when a rider id is met for the first time.
new_student(student, rider_id) ==
    [first_name |-> DictGetOr(student, "firstName", ""),
     last_name |-> DictGetOr(student, "lastName", ""),
     grade |-> DictGetOr(student, "grade", ""),
     school |-> DictGetOr(student, "school", ""),
     rider_id |-> rider_id,
     trips |-> << >>]

\* A student entry always opening a record of its own.
add_student_unmerged(students_by_id, student, schedule_date) ==
    LET rider_id == DictGetOr(student, "riderId", "")
        trips == DictGetOr(student, "trips", << >>)
    IN  Append(students_by_id,
               [new_student(student, rider_id) EXCEPT !.trips =
                   [k \in 1..Len(trips) |-> trip_record(trips[k], schedule_date)]])

\* The identity fields taken from the latest entry of the rider instead of
\* the first.
add_student_overwriting(students_by_id, student, schedule_date) ==
    LET rider_id == DictGetOr(student, "riderId", "")
        known == \E i \in DOMAIN students_by_id :
                    students_by_id[i].rider_id = rider_id
        with == IF known THEN students_by_id
                ELSE Append(students_by_id, new_student(student, rider_id))
        at == CHOOSE i \in DOMAIN with : with[i].rider_id = rider_id
        trips == DictGetOr(student, "trips", << >>)
    IN  [with EXCEPT ![at] =
            [new_student(student, rider_id) EXCEPT !.trips =
                with[at].trips
                    \o [k \in 1..Len(trips) |->
                            trip_record(trips[k], schedule_date)]]]

\* 254-313: one student entry of one day.  students_by_id is the dict in
\* its insertion order.
add_student(students_by_id, student, schedule_date) ==
    LET rider_id == DictGetOr(student, "riderId", "")
        known == \E i \in DOMAIN students_by_id :
                    students_by_id[i].rider_id = rider_id
        with == IF known THEN students_by_id
                ELSE Append(students_by_id, new_student(student, rider_id))
        at == CHOOSE i \in DOMAIN with : with[i].rider_id = rider_id
        trips == DictGetOr(student, "trips", << >>)
    IN  [with EXCEPT ![at].trips =
            @ \o [k \in 1..Len(trips) |-> trip_record(trips[k], schedule_date)]]

RECURSIVE add_students(_, _, _)
add_students(students_by_id, student_schedules, schedule_date) ==
    IF Len(student_schedules) = 0 THEN students_by_id
    ELSE add_students(
            add_student(students_by_id, student_schedules[1], schedule_date),
            Tail(student_schedules), schedule_date)

\* 251-253: one day of the payload.
add_schedule(students_by_id, schedule_data) ==
    add_students(students_by_id,
                 DictGetOr(schedule_data, "studentSchedules", << >>),
                 Prefix(DictGetOr(schedule_data, "date", "?"), 10))

RECURSIVE add_schedules(_, _)
add_schedules(students_by_id, days) ==
    IF Len(days) = 0 THEN students_by_id
    ELSE add_schedules(add_schedule(students_by_id, days[1]), Tail(days))

\* students_by_id kept between calls: the parse starts from the students
\* of the earlier poll.
_parse_schedule_response_accumulating(data) ==
    IF data.type = "list" THEN add_schedules(previous, data.items) ELSE previous

\* _parse_schedule_response, 242-314.
_parse_schedule_response(data) ==
    IF data.type = "list" THEN add_schedules(<< >>, data.items) ELSE << >>

(***************************************************************************)
(* The configuration step (config_flow.py 34-72).                          *)
(***************************************************************************)
\* The step's errors dict: empty, or errors["base"] set.
NoErrors == << >>
BaseError(code) == [base |-> code]

\* Every failure of authenticate shown as a connection failure unless it is
\* an authentication failure.
step_user_errors_two_way(kind) ==
    IF kind = StopfinderAuthError THEN BaseError("invalid_auth")
    ELSE BaseError("cannot_connect")

\* 55-62: the except clauses around client.authenticate(), in their order;
\* `except Exception` takes the plain StopfinderApiError and the timeout.
step_user_errors(kind) ==
    IF kind = StopfinderAuthError THEN BaseError("invalid_auth")
    ELSE IF kind = StopfinderConnectionError THEN BaseError("cannot_connect")
    ELSE BaseError("unknown")

\* 68-72: self.async_show_form(step_id="user", ..., errors=errors).
async_show_form(errors) ==
    [type |-> "form", step_id |-> "user", errors |-> errors]

\* 63-67: self.async_create_entry(title=user_input[CONF_USERNAME],
\* data=user_input).
async_create_entry(user_input) ==
    [type |-> "create_entry", title |-> user_input.username,
     data |-> user_input]

\* 43: _abort_if_unique_id_configured() ending the step for a user name
\* that has an entry already.
AbortFlow == "AbortFlow"

(***************************************************************************)
(* Control flow between the awaits.  Each gives the next position, the     *)
(* call's result and the local `url`.                                      *)
(***************************************************************************)
Ctl(nextpc, res, u) == [pc |-> nextpc, result |-> res, url |-> u, exc |-> NoErr]

\* get_schedules catching every exception of its try block, not only
\* aiohttp.ClientError, and re-raising it as a connection error.
raised_as_connection_error(e) ==
    IF op = "test_connection" /\ IsStopfinderApiError(e.kind)
    THEN [Ctl("idle", Returned(FALSE), url) EXCEPT !.exc = e]
    ELSE IF op = "get_schedules" /\ Count("students") > 0
    THEN [Ctl("idle", Err(StopfinderConnectionError, "Connection error", 0), url)
            EXCEPT !.exc = e]
    ELSE [Ctl("idle", e, url) EXCEPT !.exc = e]

\* The coordinator letting the client's exception out as it is.
update_failed_unwrapped(e) == e

\* coordinator.py 48-49: raise UpdateFailed(...) from err.
update_failed(e) == Err(UpdateFailed, "Error communicating with API", e.status)

\* coordinator.py 46-47: return {"students": schedules}.
update_data(schedules) == [students |-> schedules]

\* An exception leaving the call.  test_connection (318-322) turns every
\* StopfinderApiError into False, the coordinator's _async_update_data
\* turns it into UpdateFailed and the configuration step (config_flow.py
\* 55-62) shows its form again; authenticate and get_schedules let it out.
raised(e) ==
    IF op = "test_connection" /\ IsStopfinderApiError(e.kind)
    THEN [Ctl("idle", Returned(FALSE), url) EXCEPT !.exc = e]
    ELSE IF op = "async_update_data" /\ IsStopfinderApiError(e.kind)
    THEN [Ctl("idle", update_failed(e), url) EXCEPT !.exc = e]
    ELSE IF op = "async_step_user"
    THEN [Ctl("idle", Returned(async_show_form(step_user_errors(e.kind))), url)
            EXCEPT !.exc = e]
    ELSE [Ctl("idle", e, url) EXCEPT !.exc = e]

\* get_schedules returning the normalised list (186, 207), to its caller or
\* to _async_update_data.
schedules_returned(body) ==
    IF op = "async_update_data"
    THEN Ctl("idle", Returned(update_data(_parse_schedule_response(body))), url)
    ELSE Ctl("idle", Returned(_parse_schedule_response(body)), url)

\* Discovery on every authentication, whatever is cached.
needs_discovery_always(base) == TRUE

\* _authenticate, 86: discovery only when self._api_base_url is falsy.
needs_discovery(base) == ~Truthy(base)

\* The chain run at every get_schedules, whatever token is stored.
needs_authentication_always(tok) == TRUE

\* The chain never run by get_schedules, whatever is stored.
needs_authentication_never(tok) == FALSE

\* get_schedules, 154: the chain runs only when self._token is falsy.
needs_authentication(tok) == ~Truthy(tok)

\* _authenticate skipped when a token is already stored.
enter_authenticate_short_circuit(base) ==
    IF Truthy(token) THEN "apiversions"
    ELSE IF ~Truthy(base) THEN "discover" ELSE "tokens"

\* Every authentication starting with a discovery, whatever is cached.
enter_authenticate_rediscovering(base) == "discover"

\* Entering _authenticate (86-87).
enter_authenticate(base) ==
    IF needs_discovery(base) THEN "discover" ELSE "tokens"

\* Entering _get_client_id (122-123).
enter_get_client_id(base) ==
    IF ~Truthy(base) THEN "discover_cid" ELSE "apiversions"

\* get_schedules, 158-174: from the base-URL check to the first request.
enter_schedule_request(base, d) ==
    IF ~Truthy(base)
    THEN raised(Err(StopfinderApiError, "API base URL not set", 0))
    ELSE Ctl("students", Running,
             base \o "/students?dateStart=" \o d.start_str
                  \o "&dateEnd=" \o d.end_str)

\* authenticate() has returned True (148) to its caller: the caller of the
\* public coroutine, the configuration step (config_flow.py 63-67),
\* get_schedules at 156 (no schedule request issued yet) or get_schedules
\* at 191 (the first request has failed).
authenticate_returned(base) ==
    IF op \in {"authenticate", "test_connection"}
    THEN Ctl("idle", Returned(TRUE), url)
    ELSE IF op = "async_step_user"
    THEN Ctl("idle", Returned(async_create_entry(input)), url)
    ELSE IF Count("students") = 0
    THEN enter_schedule_request(base, dates)
    ELSE Ctl("retry", Running, url)

Apply(ctl) ==
    pc' = ctl.pc /\ result' = ctl.result /\ url' = ctl.url /\ exc' = ctl.exc

(***************************************************************************)
(* Entry of the public coroutines.                                         *)
(***************************************************************************)
Begin(name) ==
    /\ pc = "idle"
    /\ calls < MaxCalls
    /\ calls' = calls + 1
    /\ op' = name
    /\ trace' = <<>>
    /\ last' = Answered("none", NoAnswer)
    /\ first_status' = 0
    /\ granted' = None
    /\ entry' = [token |-> token, client_id |-> client_id,
                 api_base_url |-> api_base_url]
    /\ UNCHANGED << session, input, output >>

\* authenticate(), 144-146, up to the first await.
call_authenticate ==
    /\ Begin("authenticate")
    /\ dates' = NoDates
    /\ UNCHANGED previous
    /\ Apply(Ctl(enter_authenticate(api_base_url), Running, None))

\* test_connection(), 316-319, up to the first await.
call_test_connection ==
    /\ Begin("test_connection")
    /\ dates' = NoDates
    /\ UNCHANGED previous
    /\ Apply(Ctl(enter_authenticate(api_base_url), Running, None))

\* get_schedules(), 150-174, up to the first await.
call_get_schedules ==
    \E d \in DateRanges :
        /\ Begin("get_schedules")
        /\ dates' = d
        /\ UNCHANGED previous
        /\ IF needs_authentication(token)
           THEN Apply(Ctl(enter_authenticate(api_base_url), Running, None))
           ELSE LET ctl == enter_schedule_request(api_base_url, d)
                IN  Apply([ctl EXCEPT !.url = IF ctl.pc = "idle" THEN None ELSE @])

\* coordinator.py 43-46: _async_update_data calling get_schedules() with its
\* default dates.
call_async_update_data ==
    \E d \in DateRanges :
        /\ Begin("async_update_data")
        /\ dates' = d
        /\ previous' = IF op = "async_update_data" /\ result.kind = "return"
                       THEN result.value.students
                       ELSE previous
        /\ IF needs_authentication(token)
           THEN Apply(Ctl(enter_authenticate(api_base_url), Running, None))
           ELSE LET ctl == enter_schedule_request(api_base_url, d)
                IN  Apply([ctl EXCEPT !.url = IF ctl.pc = "idle" THEN None ELSE @])

\* What the form is submitted with.
UserInputs ==
    { [base_url |-> TenantBaseUrl, username |-> u, password |-> "secret"] :
        u \in {"Parent@Example.com", "other@example.com"} }

\* async_step_user(user_input), 34-55, up to the first await of the client:
\* the form's first display, the abort for a user name already configured,
\* or a client built for the input (45-50) and its authenticate() entered.
async_step_user ==
    /\ pc = "idle"
    /\ calls < MaxCalls
    /\ calls' = calls + 1
    /\ op' = "async_step_user"
    /\ trace' = <<>>
    /\ last' = Answered("none", NoAnswer)
    /\ first_status' = 0
    /\ granted' = None
    /\ dates' = NoDates
    /\ \/ /\ input' = None
          /\ entry' = [token |-> token, client_id |-> client_id,
                       api_base_url |-> api_base_url]
          /\ Apply(Ctl("idle", Returned(async_show_form(NoErrors)), None))
          /\ UNCHANGED session
       \/ \E user_input \in UserInputs, configured \in BOOLEAN :
            /\ input' = user_input
            /\ IF configured
               THEN /\ entry' = [token |-> token, client_id |-> client_id,
                                 api_base_url |-> api_base_url]
                    /\ Apply(Ctl("idle", Err(AbortFlow, "already_configured", 0),
                                 None))
                    /\ UNCHANGED session
               ELSE /\ token' = None
                    /\ client_id' = None
                    /\ api_base_url' = None
                    /\ entry' = [token |-> None, client_id |-> None,
                                 api_base_url |-> None]
                    /\ Apply(Ctl(enter_authenticate(None), Running, None))
    /\ UNCHANGED << output, previous >>

(***************************************************************************)
(* The round trips.                                                        *)
(***************************************************************************)
\* _get_stopfinder_base_url(), called from _authenticate (87) or from
\* _get_client_id (123).
get_stopfinder_base_url ==
    /\ pc \in {"discover", "discover_cid"}
    /\ \E ans \in DiscoveryAnswers :
        LET r == stopfinder_base_url_result(ans) IN
        /\ Issue(Request("discover", "GET",
                         TenantBaseUrl \o "/$xcom/getStopfinder.asp?/email=test",
                         get_headers(FALSE)))
        /\ last' = Answered("discover", ans)
        /\ IF r.err = NoErr
           THEN /\ api_base_url' = r.value
                /\ Apply(Ctl(IF pc = "discover" THEN "tokens" ELSE "apiversions",
                             Running, url))
           ELSE /\ api_base_url' = api_base_url
                /\ Apply(raised(r.err))
    /\ UNCHANGED << token, client_id, op, dates, first_status, granted, entry,
                    calls, input, output, previous >>

\* _authenticate(), 89-118: the token POST.
_authenticate ==
    /\ pc = "tokens"
    /\ \E ans \in TokenAnswers :
        LET r == token_result(ans) IN
        /\ Issue(Request("tokens", "POST", api_base_url \o "/tokens",
                         get_headers(FALSE)))
        /\ last' = Answered("tokens", ans)
        /\ token' = IF r.store THEN r.value ELSE token
        /\ granted' = IF r.err = NoErr THEN r.value ELSE granted
        /\ IF r.err = NoErr
           THEN Apply(Ctl(enter_get_client_id(api_base_url), Running, url))
           ELSE Apply(raised(r.err))
    /\ UNCHANGED << client_id, api_base_url, op, dates, first_status, entry,
                    calls, input, output, previous >>

\* _get_client_id(), 125-142: the apiversions GET, and authenticate()'s return.
_get_client_id ==
    /\ pc = "apiversions"
    /\ \E ans \in VersionsAnswers :
        LET r == client_id_result(ans) IN
        /\ Issue(Request("apiversions", "GET",
                         api_base_url \o "/systems/apiversions",
                         get_headers(TRUE)))
        /\ last' = Answered("apiversions", ans)
        /\ client_id' = IF r.store THEN r.value ELSE client_id
        /\ IF r.err = NoErr
           THEN Apply(authenticate_returned(api_base_url))
           ELSE Apply(raised(r.err))
    /\ UNCHANGED << token, api_base_url, op, dates, first_status, granted, entry,
                    calls, input, output, previous >>

\* get_schedules(), 176-191: the first schedule request.
get_schedules ==
    /\ pc = "students"
    /\ \E ans \in ScheduleAnswers :
        /\ Issue(Request("students", "GET", url, schedule_headers))
        /\ last' = Answered("students", ans)
        /\ IF ans.transport # "response"
           THEN /\ Apply(raised(transport_error(ans)))
                /\ UNCHANGED << token, first_status >>
           ELSE IF ans.status = 200
           THEN /\ Apply(schedules_returned(ans.body))
                /\ UNCHANGED << token, first_status >>
           ELSE /\ token' = cleared_token
                /\ first_status' = ans.status
                /\ Apply(Ctl(enter_authenticate(api_base_url), Running, url))
    /\ UNCHANGED << client_id, api_base_url, op, dates, granted, entry, calls,
                    input, output, previous >>

\* get_schedules(), 192-214: the retry after the re-authentication.
get_schedules_retry ==
    /\ pc = "retry"
    /\ \E ans \in ScheduleAnswers :
        /\ Issue(Request("students", "GET", url, retry_headers))
        /\ last' = Answered("students", ans)
        /\ IF ans.transport # "response"
           THEN Apply(raised(transport_error(ans)))
           ELSE IF ans.status # 200
           THEN Apply(raised(retry_failure(ans.status)))
           ELSE Apply(schedules_returned(ans.body))
    /\ UNCHANGED << token, client_id, api_base_url, op, dates, first_status,
                    granted, entry, calls, input, output, previous >>

(***************************************************************************)
(* The client after __init__ (39-46), and its behaviours.                  *)
(***************************************************************************)
Init ==
    /\ token = None
    /\ client_id = None
    /\ api_base_url = None
    /\ op = "none"
    /\ pc = "idle"
    /\ dates = NoDates
    /\ url = None
    /\ trace = <<>>
    /\ last = Answered("none", NoAnswer)
    /\ first_status = 0
    /\ result = NoCall
    /\ exc = NoErr
    /\ granted = None
    /\ entry = [token |-> None, client_id |-> None, api_base_url |-> None]
    /\ calls = 0
    /\ input = None
    /\ output = None
    /\ previous = << >>

Next ==
    \/ call_authenticate
    \/ call_test_connection
    \/ call_get_schedules
    \/ get_stopfinder_base_url
    \/ _authenticate
    \/ _get_client_id
    \/ get_schedules
    \/ get_schedules_retry

Spec == Init /\ [][Next]_vars

\* The coordinator's client (coordinator.py 35-40), which nothing but
\* _async_update_data calls.
NextPoll ==
    \/ call_async_update_data
    \/ get_stopfinder_base_url
    \/ _authenticate
    \/ _get_client_id
    \/ get_schedules
    \/ get_schedules_retry

SpecPoll == Init /\ [][NextPoll]_vars

\* The configuration flow: the step taken again and again, each submission
\* with a client of its own.
NextFlow ==
    \/ async_step_user
    \/ get_stopfinder_base_url
    \/ _authenticate
    \/ _get_client_id

SpecFlow == Init /\ [][NextFlow]_vars

(***************************************************************************)
(* Reading the trace.                                                      *)
(***************************************************************************)
Kinds == [i \in 1..Len(trace) |-> trace[i].kind]

\* Position in the trace of the call's first schedule request (0: none yet).
FirstSchedule ==
    IF Count("students") = 0 THEN 0
    ELSE CHOOSE i \in 1..Len(trace) :
            /\ trace[i].kind = "students"
            /\ \A j \in 1..(i - 1) : trace[j].kind # "students"

InGetSchedules == op = "get_schedules"

\* The latest answer is a response to the call's first schedule request,
\* or to its retry.
FirstAnswered ==
    InGetSchedules /\ last.kind = "students" /\ Count("students") = 1
RetryAnswered ==
    InGetSchedules /\ last.kind = "students" /\ Count("students") = 2

NonOk(ans) == ans.transport = "response" /\ ans.status # 200

\* The latest answer completed an authentication chain: an apiversions
\* response that _get_client_id accepted.
ChainCompleted ==
    /\ last.kind = "apiversions"
    /\ last.transport = "response" /\ last.status = 200
    /\ last.body.type = "list" /\ Len(last.body.items) > 0

(***************************************************************************)
(* C1.  In one get_schedules call a first schedule response other than 200 *)
(* clears the stored token and starts the authentication chain; once the   *)
(* chain has run the same query is sent again, once; a second response     *)
(* other than 200 ends the call with a plain StopfinderApiError citing the *)
(* retry's status; the call never issues a third schedule request.         *)
(***************************************************************************)
C1_RetryExactlyOnce ==
    InGetSchedules =>
        /\ Count("students") <= 2
        /\ (FirstAnswered /\ NonOk(last)) =>
              /\ token = None
              /\ pc = "tokens"
              /\ result = Running
              /\ first_status = last.status
        /\ (first_status # 0 /\ ChainCompleted) =>
              /\ pc = "retry"
              /\ Count("students") = 1
        /\ pc = "retry" => (first_status # 0 /\ ChainCompleted)
        /\ Count("students") = 2 =>
              /\ first_status \notin {0, 200}
              /\ trace[Len(trace)].kind = "students"
              /\ trace[Len(trace)].url = trace[FirstSchedule].url
              /\ trace[Len(trace)].method = trace[FirstSchedule].method
              /\ pc = "idle"
        /\ (RetryAnswered /\ NonOk(last)) =>
              /\ result.kind = StopfinderApiError
              /\ result.status = last.status
        /\ (RetryAnswered /\ last.transport = "response" /\ last.status = 200) =>
              result.kind = "return"

\* A first request answered 500, a re-authentication, a retry answered 503.
C1_Witness ==
    /\ RetryAnswered
    /\ first_status = 500
    /\ last.status = 503
    /\ result = Err(StopfinderApiError, "Failed to get schedules", 503)

(***************************************************************************)
(* C2.  The retry is issued only after the re-authentication (token POST,  *)
(* then client-id GET) has completed, and carries the token that           *)
(* re-authentication obtained, not the header set of the failed request.   *)
(***************************************************************************)
C2_RetryAfterReauth ==
    (InGetSchedules /\ Count("students") = 2) =>
        LET i == FirstSchedule
            retry == trace[Len(trace)]
        IN  /\ Len(trace) = i + 3
            /\ trace[i + 1].kind = "tokens"
            /\ trace[i + 2].kind = "apiversions"
            /\ Truthy(granted)
            /\ Header(trace[i + 2].headers, "Token") = granted
            /\ Header(retry.headers, "Token") = granted
            /\ token = granted

\* A retry whose token differs from the one the failed first request carried.
C2_Witness ==
    /\ InGetSchedules
    /\ Count("students") = 2
    /\ Header(trace[Len(trace)].headers, "Token") = "xyz"
    /\ Header(trace[FirstSchedule].headers, "Token") = "abc"

\* The step issues a discovery request.
DiscoveryIssued ==
    /\ Len(trace') = Len(trace) + 1
    /\ trace'[Len(trace')].kind = "discover"

(***************************************************************************)
(* C3.  Once api_base_url is set, no step of any call changes it and no    *)
(* step issues a discovery request.                                        *)
(***************************************************************************)
C3_BaseUrlStable ==
    [][Truthy(api_base_url) =>
          /\ api_base_url' = api_base_url
          /\ ~DiscoveryIssued
          /\ pc' \notin {"discover", "discover_cid"}]_vars

\* A token refresh inside get_schedules, and an explicit authenticate, both
\* on a client whose api_base_url was discovered by an earlier call.
C3_Witness ==
    /\ Truthy(entry.api_base_url)
    /\ api_base_url = entry.api_base_url
    /\ Count("tokens") = 1
    /\ Count("discover") = 0
    /\ \/ InGetSchedules /\ first_status # 0
       \/ op = "authenticate"

(***************************************************************************)
(* C4 as claimed.  Every schedule response other than 200, to the first    *)
(* request or to the retry, leaves the stored token absent.                *)
(***************************************************************************)
C4_AsClaimed ==
    (InGetSchedules /\ last.kind = "students" /\ NonOk(last)) => token = None

(***************************************************************************)
(* C4 as amended.  A first schedule response other than 200 clears the     *)
(* stored token; the retry's response does not: after a call that fails    *)
(* because the retry was answered non-200 the stored token is the one the  *)
(* re-authentication obtained.                                             *)
(***************************************************************************)
C4_ClearedOnFirstOnly ==
    /\ (FirstAnswered /\ NonOk(last)) => token = None
    /\ (RetryAnswered /\ NonOk(last)) =>
          /\ pc = "idle"
          /\ result.kind = StopfinderApiError
          /\ Truthy(token)
          /\ token = granted

C4_Witness ==
    /\ RetryAnswered
    /\ NonOk(last)
    /\ pc = "idle"
    /\ token = "xyz"

\* The requests of one full authentication chain begun with `base` cached.
ChainKinds(base) ==
    (IF Truthy(base) THEN <<>> ELSE <<"discover">>) \o <<"tokens", "apiversions">>

(***************************************************************************)
(* C5.  get_schedules runs the authentication chain (discovery if the base *)
(* URL is unset, token POST, client-id GET) before its first schedule      *)
(* request exactly when no token is stored at entry; with a token stored   *)
(* the first upstream request of the call is the schedule request.         *)
(***************************************************************************)
C5_ChainIffTokenAbsent ==
    InGetSchedules =>
        /\ Len(trace) >= 1 =>
              (trace[1].kind = "students" <=> Truthy(entry.token))
        /\ (pc # "idle" /\ Len(trace) = 0) =>
              (pc = "students" <=> Truthy(entry.token))
        /\ Count("students") >= 1 =>
              SubSeq(Kinds, 1, FirstSchedule - 1) =
                  (IF Truthy(entry.token) THEN <<>>
                   ELSE ChainKinds(entry.api_base_url))

\* A call entered with a token stored whose first request is the schedule
\* request.
C5_Witness ==
    /\ InGetSchedules
    /\ Truthy(entry.token)
    /\ Len(trace) >= 1
    /\ trace[1].kind = "students"

\* A call entered without a token: the whole chain precedes the request.
C5_WitnessChain ==
    /\ InGetSchedules
    /\ ~Truthy(entry.token)
    /\ Kinds = <<"discover", "tokens", "apiversions", "students">>

\* An explicit authenticate() has returned True.
AuthenticateReturned ==
    op = "authenticate" /\ pc = "idle" /\ result = Returned(TRUE)

(***************************************************************************)
(* C6 as claimed.  Every explicit authenticate that returns has issued a   *)
(* token POST and then a client-id GET whatever token was stored, with a   *)
(* discovery first only if api_base_url was unset, and leaves a present    *)
(* token, a present client_id and the api_base_url it found cached.        *)
(***************************************************************************)
C6_AsClaimed ==
    AuthenticateReturned =>
        /\ Kinds = ChainKinds(entry.api_base_url)
        /\ Truthy(token)
        /\ client_id # None
        /\ Truthy(entry.api_base_url) => api_base_url = entry.api_base_url

(***************************************************************************)
(* C6 as amended.  Every explicit authenticate issues the token POST and   *)
(* then the client-id GET whatever token is stored, with a discovery first *)
(* exactly when api_base_url is unset; when it returns, the session holds  *)
(* the token of this call's token response, the client-id field of the     *)
(* first apiversions element (absent when that element has none) and the   *)
(* api_base_url it found cached: the session left behind is a function of  *)
(* the upstream's answers alone, so equal answers leave equal sessions.    *)
(***************************************************************************)
C6_AuthenticateIdempotent ==
    op = "authenticate" =>
        /\ Len(Kinds) <= Len(ChainKinds(entry.api_base_url))
        /\ Kinds = SubSeq(ChainKinds(entry.api_base_url), 1, Len(Kinds))
        /\ pc = "idle" => (result = Returned(TRUE) \/ (exc # NoErr /\ result = exc))
        /\ (pc = "idle" /\ Len(Kinds) < Len(ChainKinds(entry.api_base_url))) =>
              exc # NoErr
        /\ AuthenticateReturned =>
              /\ Kinds = ChainKinds(entry.api_base_url)
              /\ Truthy(token)
              /\ token = granted
              /\ ChainCompleted
              /\ client_id = DictGet(last.body.items[1], "clientId")
              /\ Truthy(api_base_url)
              /\ Truthy(entry.api_base_url) => api_base_url = entry.api_base_url

\* A repeated authenticate on an authenticated session: no discovery, the
\* token POST issued although a token was stored, the token replaced.
C6_Witness ==
    /\ AuthenticateReturned
    /\ entry.token = "abc"
    /\ entry.client_id = "c1"
    /\ Kinds = <<"tokens", "apiversions">>
    /\ token = "xyz"
    /\ client_id = "c2"

\* The latest answer is a response to a token POST.
TokenAnswered == last.kind = "tokens" /\ last.transport = "response"

(***************************************************************************)
(* C7 as claimed.  A 2xx token response with a token stores that token.    *)
(***************************************************************************)
C7_AsClaimed ==
    (TokenAnswered /\ last.status \in 200..299
         /\ Truthy(DictGet(last.body, "token"))) =>
        /\ exc = NoErr
        /\ token = DictGet(last.body, "token")

(***************************************************************************)
(* C7 as amended.  The token POST: status 400 or 401 gives AuthError       *)
(* (invalid credentials); any other status except 200 and 201 gives        *)
(* AuthError, a 2xx such as 202 included; a 200 or 201 response whose body *)
(* has no token or an empty one gives AuthError; a 200 or 201 response     *)
(* with a token stores exactly that token; an aiohttp.ClientError gives    *)
(* ConnectionError.                                                        *)
(***************************************************************************)
C7_TokenPostOutcomes ==
    last.kind = "tokens" =>
        /\ last.transport = "ClientError" =>
              exc = Err(StopfinderConnectionError, "Connection error", 0)
        /\ (TokenAnswered /\ last.status \in {400, 401}) =>
              exc = Err(StopfinderAuthError, "Invalid credentials", 0)
        /\ (TokenAnswered /\ last.status \notin {200, 201, 400, 401}) =>
              exc = Err(StopfinderAuthError, "Authentication failed", last.status)
        /\ (TokenAnswered /\ last.status \in {200, 201}
               /\ ~Truthy(DictGet(last.body, "token"))) =>
              exc = Err(StopfinderAuthError, "No token in response", 0)
        /\ (TokenAnswered /\ last.status \in {200, 201}
               /\ Truthy(DictGet(last.body, "token"))) =>
              /\ exc = NoErr
              /\ token = DictGet(last.body, "token")
              /\ pc = "apiversions"
        /\ exc # NoErr =>
              /\ pc = "idle"
              /\ op # "test_connection" => result = exc

\* 200 {"token": "abc"} stores "abc".
C7_Witness ==
    /\ TokenAnswered
    /\ last.status = 200
    /\ DictGet(last.body, "token") = "abc"
    /\ token = "abc"
    /\ exc = NoErr

\* The text of a JSON object rather than plain text.
JsonObjectText(s) == StartsWith(Strip(s), "{")

C8_WitnessRefused ==
    /\ last.kind = "discover"
    /\ last.status = 200
    /\ last.body = "<html>not found</html>"
    /\ exc.kind = StopfinderConnectionError
    /\ api_base_url = None

(***************************************************************************)
(* C9.  Discovery answered 200 with the JSON object                        *)
(* {"sfApiUri": "https://x"} returns "https://x" as the API root.          *)
(***************************************************************************)
C9_JsonDiscovery ==
    (last.kind = "discover" /\ last.transport = "response" /\ last.status = 200
         /\ last.body = "{\"sfApiUri\": \"https://x\"}") =>
        /\ exc = NoErr
        /\ api_base_url = "https://x"

(***************************************************************************)
(* C10.  The client-id fetch raises a plain StopfinderApiError (neither    *)
(* AuthError nor ConnectionError) on a non-2xx apiversions response and on *)
(* a body that is an empty list or no list; on success it stores the       *)
(* client-id field of the first element as client_id.                      *)
(***************************************************************************)
C10_ClientIdOutcomes ==
    (last.kind = "apiversions" /\ last.transport = "response") =>
        /\ last.status \notin 200..299 =>
              exc = Err(StopfinderApiError, "Failed to get API versions",
                        last.status)
        /\ (last.status = 200
               /\ (last.body.type # "list" \/ last.body.items = <<>>)) =>
              exc = Err(StopfinderApiError, "Invalid API versions response", 0)
        /\ exc = NoErr =>
              /\ last.body.type = "list"
              /\ client_id = DictGet(last.body.items[1], "clientId")
        /\ (last.status = 200 /\ last.body.type = "list"
               /\ Len(last.body.items) = 2) =>
              /\ DictGet(last.body.items[1], "clientId") = "c2"
              /\ client_id = "c2"
        /\ exc # NoErr =>
              /\ pc = "idle"
              /\ op # "test_connection" => result = exc

\* A two-element list: the first element's client id is stored.
C10_Witness ==
    /\ last.kind = "apiversions"
    /\ ChainCompleted
    /\ Len(last.body.items) = 2
    /\ exc = NoErr
    /\ client_id = "c2"
    /\ entry.client_id = "c1"

\* An empty list, refused with the plain StopfinderApiError.
C10_WitnessRefused ==
    /\ last.kind = "apiversions"
    /\ last.status = 200
    /\ last.body.type = "list"
    /\ Len(last.body.items) = 0
    /\ result = Err(StopfinderApiError, "Invalid API versions response", 0)

\* The exception raised by the lower step (_get_stopfinder_base_url,
\* _authenticate, _get_client_id) that received the latest answer; NoErr when
\* that step raised none or the latest answer went to a schedule request.
LowerStepError ==
    CASE last.kind = "discover" -> stopfinder_base_url_result(last).err
      [] last.kind = "tokens" -> token_result(last).err
      [] last.kind = "apiversions" -> client_id_result(last).err
      [] OTHER -> NoErr

\* The latest answer went to a step of the re-authentication that follows a
\* failed first schedule request.
InReauthentication ==
    InGetSchedules /\ first_status # 0 /\ last.kind # "students"

(***************************************************************************)
(* C11.  authenticate and get_schedules end with the very exception a      *)
(* lower step raised, its class unchanged; when a step of the              *)
(* re-authentication inside get_schedules raises, get_schedules ends with  *)
(* that exception and has issued the first schedule request only.          *)
(***************************************************************************)
C11_FailurePropagates ==
    /\ (op \in {"authenticate", "get_schedules"} /\ LowerStepError # NoErr) =>
          /\ pc = "idle"
          /\ result = LowerStepError
          /\ exc = LowerStepError
    /\ (InReauthentication /\ LowerStepError # NoErr) =>
          /\ result.kind = LowerStepError.kind
          /\ Count("students") = 1
          /\ trace[Len(trace)].kind # "students"

\* A first request answered 500, then a token POST answered 401.
C11_Witness ==
    /\ InReauthentication
    /\ first_status = 500
    /\ last.kind = "tokens" /\ last.transport = "response" /\ last.status = 401
    /\ result = Err(StopfinderAuthError, "Invalid credentials", 0)
    /\ Count("students") = 1

\* A re-authentication ended by a plain StopfinderApiError of the client-id GET.
C11_WitnessApiError ==
    /\ InReauthentication
    /\ last.kind = "apiversions"
    /\ result.kind = StopfinderApiError
    /\ Count("students") = 1

(***************************************************************************)
(* C12.  test_connection returns True exactly when the authentication      *)
(* chain ran to its end, and returns False, raising nothing, when a step   *)
(* of the chain raised StopfinderConnectionError, StopfinderAuthError or a *)
(* plain StopfinderApiError.                                               *)
(***************************************************************************)
C12_TestConnection ==
    (op = "test_connection" /\ pc = "idle") =>
        /\ (result = Returned(TRUE)) <=> ChainCompleted
        /\ ChainCompleted => Kinds = ChainKinds(entry.api_base_url)
        /\ LowerStepError.kind \in {StopfinderConnectionError, StopfinderAuthError,
                                    StopfinderApiError}
              => result = Returned(FALSE)
        /\ result.kind \notin {StopfinderConnectionError, StopfinderAuthError,
                               StopfinderApiError}

\* test_connection returning False on a plain StopfinderApiError.
C12_Witness ==
    /\ op = "test_connection" /\ pc = "idle"
    /\ result = Returned(FALSE)
    /\ last.kind = "apiversions"
    /\ exc.kind = StopfinderApiError

\* test_connection returning True.
C12_WitnessTrue ==
    op = "test_connection" /\ pc = "idle" /\ result = Returned(TRUE)

(***************************************************************************)
(* C13.  A timeout or cancellation of the transport during an upstream     *)
(* call (discovery, token POST, client-id GET, schedule GET) leaves the    *)
(* client as a StopfinderConnectionError.                                  *)
(***************************************************************************)
C13_TimeoutIsConnectionError ==
    last.transport = TransportTimeout => exc.kind = StopfinderConnectionError

(***************************************************************************)
(* C14 as claimed.  Every schedule request of get_schedules carries a      *)
(* Token header and an X-Client-Keys header.                               *)
(***************************************************************************)
C14_AsClaimed ==
    \A i \in 1..Len(trace) :
        trace[i].kind = "students" =>
            /\ Truthy(Header(trace[i].headers, "Token"))
            /\ Truthy(Header(trace[i].headers, "X-Client-Keys"))

(***************************************************************************)
(* C14.  Every schedule request of get_schedules, first and retry, carries *)
(* the Token header, with the token stored when it is sent; it carries the *)
(* X-Client-Keys header exactly when a client id is stored at that moment, *)
(* and then with that client id.                                           *)
(***************************************************************************)
C14_ScheduleHeaders ==
    /\ \A i \in 1..Len(trace) :
          trace[i].kind = "students" => Truthy(Header(trace[i].headers, "Token"))
    /\ last.kind = "students" =>
          LET h == trace[Len(trace)].headers
          IN  /\ Header(h, "Token") =
                    (IF Len(trace) = 1 THEN entry.token ELSE granted)
              /\ Header(h, "X-Client-Keys") =
                    (IF Truthy(client_id) THEN client_id ELSE None)

\* A schedule request sent with a token and without X-Client-Keys.
C14_Witness ==
    /\ InGetSchedules
    /\ last.kind = "students"
    /\ Truthy(Header(trace[Len(trace)].headers, "Token"))
    /\ Header(trace[Len(trace)].headers, "X-Client-Keys") = None

\* A retry carrying both headers.
C14_WitnessBoth ==
    /\ RetryAnswered
    /\ Header(trace[Len(trace)].headers, "Token") = "xyz"
    /\ Header(trace[Len(trace)].headers, "X-Client-Keys") = "c1"

(***************************************************************************)
(* Normalisation studied on its own: schedule payloads as the upstream     *)
(* can answer them, and _parse_schedule_response applied to each.          *)
(***************************************************************************)
MaxDays == 2

RiderIds == {"R1", "R2"}

\* The i-th day of a payload: its date, with a time part as the upstream
\* sends it.
DayDate(i) == "2024-03-1" \o Digits[i + 1] \o "T00:00:00"

\* A trip that tells by its name where in the payload it stands.
PlacedTrip(i, j, k) ==
    JObj([name |-> "d" \o Digits[i + 1] \o "s" \o Digits[j + 1]
                       \o "t" \o Digits[k + 1],
          busNumber |-> "12",
          pickUpTime |-> "1899-12-30T08:15:00",
          pickUpStopName |-> "Elm St",
          dropOffTime |-> "1899-12-30T08:45:00",
          dropOffStopName |-> "School",
          toSchool |-> TRUE,
          vehicleId |-> "V7",
          startTime |-> "1899-12-30T08:00:00",
          finishTime |-> "1899-12-30T09:00:00"])

\* A student entry: who it is for and how many trips it lists.  Its
\* identity fields tell where in the payload it stands.
PlacedStudent(i, j, e) ==
    JObj([riderId |-> e.rider,
          firstName |-> "first-d" \o Digits[i + 1] \o "s" \o Digits[j + 1],
          lastName |-> "last-d" \o Digits[i + 1] \o "s" \o Digits[j + 1],
          grade |-> Digits[i + 1],
          school |-> "school-d" \o Digits[i + 1],
          trips |-> [k \in 1..e.trips |-> PlacedTrip(i, j, k)]])

StudentShapes == [rider : RiderIds, trips : {0, 2}]
DayShapes == UNION {[1..n -> StudentShapes] : n \in 0..2}
PayloadShapes == UNION {[1..n -> DayShapes] : n \in 0..MaxDays}

PlacedPayload(shape) ==
    JList([i \in 1..Len(shape) |->
            JObj([date |-> DayDate(i),
                  studentSchedules |->
                      [j \in 1..Len(shape[i]) |->
                          PlacedStudent(i, j, shape[i][j])]])])

\* Payloads of several days, riders and trips.
PlacedPayloads == {PlacedPayload(shape) : shape \in PayloadShapes}

\* One trip's fields, each present or absent.
PickUpTimeFields ==
    { << >>, [pickUpTime |-> ""], [pickUpTime |-> "1899-12-30T08:15:00"],
      [pickUpTime |-> "1899-12-30T23:55:00Z"], [pickUpTime |-> "08:15"],
      [pickUpTime |-> "1899-12-30T08:15"] }
DropOffTimeFields ==
    { << >>, [dropOffTime |-> "1899-12-30T00:05:00-05:00"],
      [dropOffTime |-> "TBD by school"],
      [dropOffTime |-> "2024-02-28T23:55:00"] }
StartTimeFields == { << >>, [startTime |-> "1899-12-30T07:00:00"] }
FinishTimeFields == { << >>, [finishTime |-> "1899-12-30T16:30:00"] }
AdjustFields ==
    { << >>, [adjustMinutes |-> 0], [adjustMinutes |-> -10],
      [adjustMinutes |-> 10] }
OtherTripFields ==
    { << >>,
      [name |-> "AM Route", busNumber |-> "12", pickUpStopName |-> "Elm St",
       dropOffStopName |-> "School", toSchool |-> TRUE, vehicleId |-> "V7"] }
DateFields ==
    { << >>, [date |-> "2024-03-10T00:00:00"], [date |-> "2024-12-31"],
      [date |-> "2024-3-1"] }
RiderFields == { << >>, [riderId |-> "R1"] }

\* Payloads of one day, one student and one trip, the trip's fields varied.
SingleTripPayloads ==
    { JList(<< JObj(d @@ [studentSchedules |->
                << JObj(r @@ [trips |-> << JObj(p @@ q @@ s @@ f @@ a @@ o) >>]) >>]) >>) :
        d \in DateFields, r \in RiderFields, p \in PickUpTimeFields,
        q \in DropOffTimeFields, s \in StartTimeFields, f \in FinishTimeFields,
        a \in AdjustFields, o \in OtherTripFields }

\* A body that is no list.
NonListPayloads == { JObj([error |-> "maintenance"]) }

SchedulePayloads == PlacedPayloads \cup SingleTripPayloads \cup NonListPayloads

\* A response has arrived at _parse_schedule_response.
InitNorm ==
    /\ token = None
    /\ client_id = None
    /\ api_base_url = None
    /\ op = "none"
    /\ pc = "parse"
    /\ dates = NoDates
    /\ url = None
    /\ trace = <<>>
    /\ last = Answered("none", NoAnswer)
    /\ first_status = 0
    /\ result = NoCall
    /\ exc = NoErr
    /\ granted = None
    /\ entry = [token |-> None, client_id |-> None, api_base_url |-> None]
    /\ calls = 0
    /\ input \in SchedulePayloads
    /\ output = None
    /\ previous = << >>

\* _parse_schedule_response, 242-314.
parse_schedule_response ==
    /\ pc = "parse"
    /\ output' = _parse_schedule_response(input)
    /\ pc' = "parsed"
    /\ UNCHANGED << token, client_id, api_base_url, op, dates, url, trace, last,
                    first_status, result, exc, granted, entry, calls, input,
                    previous >>

NextNorm == parse_schedule_response

SpecNorm == InitNorm /\ [][NextNorm]_vars

(***************************************************************************)
(* Reading a payload.                                                      *)
(***************************************************************************)
Parsed == pc = "parsed"

RECURSIVE Concat(_)
Concat(seqs) == IF Len(seqs) = 0 THEN << >> ELSE seqs[1] \o Concat(Tail(seqs))

\* The student entries of the payload, day after day, each with the date
\* string of its day.
Entries ==
    IF input.type # "list" THEN << >>
    ELSE Concat([i \in 1..Len(input.items) |->
            LET day == input.items[i]
                sts == DictGetOr(day, "studentSchedules", << >>)
            IN  [j \in 1..Len(sts) |->
                    [date |-> DictGetOr(day, "date", "?"),
                     rider |-> DictGetOr(sts[j], "riderId", ""),
                     student |-> sts[j],
                     trips |-> DictGetOr(sts[j], "trips", << >>)]]])

\* The positions in Entries at which a rider id appears for the first time.
FirstSeen == {i \in 1..Len(Entries) :
                \A j \in 1..(i - 1) : Entries[j].rider # Entries[i].rider}

\* The upstream trips of a rider, each with the date string of its day, in
\* the order of the payload.
SourceTrips(rider) ==
    LET entries == Entries
    IN  Concat([i \in 1..Len(entries) |->
                IF entries[i].rider # rider THEN << >>
                ELSE [k \in 1..Len(entries[i].trips) |->
                        [date |-> entries[i].date,
                         trip |-> entries[i].trips[k]]]])

(***************************************************************************)
(* C15.  The normalised list holds one Student per distinct rider id of    *)
(* the payload, in the order in which the rider ids are first met; each    *)
(* Student's trips are that rider's upstream trips, day after day and      *)
(* within a day in payload order, none dropped, duplicated or reordered.   *)
(***************************************************************************)
C15_MergedByRider ==
    Parsed =>
        /\ Len(output) = Cardinality(FirstSeen)
        /\ \A a, b \in 1..Len(output) :
              a # b => output[a].rider_id # output[b].rider_id
        /\ \A a \in 1..Len(output) :
              /\ \E i \in FirstSeen :
                    /\ Entries[i].rider = output[a].rider_id
                    /\ Cardinality({j \in FirstSeen : j < i}) = a - 1
              /\ LET src == SourceTrips(output[a].rider_id)
                 IN  /\ Len(output[a].trips) = Len(src)
                     /\ \A k \in 1..Len(src) :
                           output[a].trips[k].name
                               = DictGetOr(src[k].trip, "name", "")

\* R2 met before R1, and met again on the second day: two Students, R2
\* first with its four trips in payload order.
C15_Witness ==
    /\ Parsed
    /\ Len(Entries) = 3
    /\ Len(output) = 2
    /\ output[1].rider_id = "R2" /\ output[2].rider_id = "R1"
    /\ Len(output[1].trips) = 4
    /\ output[1].trips[1].name = "d1s1t1"
    /\ output[1].trips[2].name = "d1s1t2"
    /\ output[1].trips[3].name = "d2s1t1"
    /\ output[1].trips[4].name = "d2s1t2"

\* The trips of the normalised list, by Student and position, and the
\* upstream trip each one comes from.
OutTrips ==
    UNION {{<< a, k >> : k \in 1..Len(output[a].trips)} : a \in 1..Len(output)}
Out(at) == output[at[1]].trips[at[2]]
Src(at) == SourceTrips(output[at[1]].rider_id)[at[2]]

\* The same for all trips at once: by Student, the upstream trips.
Sources == [a \in 1..Len(output) |-> SourceTrips(output[a].rider_id)]
From(sources, at) == sources[at[1]][at[2]]

\* The four time fields: the key of the Trip record and the upstream key.
TimeFields ==
    { << "pickup_time", "pickUpTime" >>, << "dropoff_time", "dropOffTime" >>,
      << "start_time", "startTime" >>, << "finish_time", "finishTime" >> }

\* The upstream value of a time field (None when absent) and the trip's
\* offset in minutes.
Upstream(src, f) == DictGet(src.trip, f[2])
Offset(src) == DictGetOr(src.trip, "adjustMinutes", 0)

\* A value the date repair applies to: a non-empty string of at least ten
\* characters with a "T" in it.
Repairable(value) == Truthy(value) /\ Len(value) >= 10 /\ Contains(value, "T")

(***************************************************************************)
(* C16 as claimed.  Whatever the day's date string, a repairable value of  *)
(* any of the four time fields gets the first ten characters of that date  *)
(* string in place of its own first ten characters.                        *)
(***************************************************************************)
C16_AsClaimed ==
    Parsed =>
        LET sources == Sources IN
        \A at \in OutTrips : \A f \in TimeFields :
            LET value == Upstream(From(sources, at), f)
                repaired == IF Repairable(value)
                            THEN Prefix(From(sources, at).date, 10) \o Suffix(value, 10)
                            ELSE value
            IN  Out(at)[f[1]] = _adjust_time(repaired, Offset(From(sources, at)))

(***************************************************************************)
(* C16.  Date repair: for each of the four time fields, a repairable value *)
(* (a non-empty string of at least ten characters containing "T") has its  *)
(* first ten characters replaced by the first ten characters of the day's  *)
(* date string, the rest kept, provided that date string has at least ten  *)
(* characters; with a shorter or missing date string, and for any other    *)
(* value (absent included), the value passes through unmodified.  The      *)
(* minute adjustment then works on the result.                             *)
(***************************************************************************)
C16_DateRepair ==
    Parsed =>
        LET sources == Sources IN
        \A at \in OutTrips : \A f \in TimeFields :
            LET value == Upstream(From(sources, at), f)
                repaired == IF Repairable(value) /\ Len(From(sources, at).date) >= 10
                            THEN Prefix(From(sources, at).date, 10) \o Suffix(value, 10)
                            ELSE value
            IN  Out(at)[f[1]] = _adjust_time(repaired, Offset(From(sources, at)))

\* A pickup time that took the date of its day.
C16_Witness ==
    /\ Parsed
    /\ OutTrips = {<< 1, 1 >>}
    /\ Src(<< 1, 1 >>).date = "2024-12-31"
    /\ Upstream(Src(<< 1, 1 >>), << "pickup_time", "pickUpTime" >>)
            = "1899-12-30T08:15:00"
    /\ Out(<< 1, 1 >>).pickup_time = "2024-12-31T08:15:00"

\* A repairable pickup time left alone under a date string of eight
\* characters.
C16_WitnessShortDate ==
    /\ Parsed
    /\ OutTrips = {<< 1, 1 >>}
    /\ Src(<< 1, 1 >>).date = "2024-3-1"
    /\ Out(<< 1, 1 >>).pickup_time = "1899-12-30T08:15:00"

\* Minutes since the start of the calendar, on the datetime's own clock.
WallMinutes(dt) ==
    Ordinal(dt.year, dt.month, dt.day) * 1440 + dt.hour * 60 + dt.minute

(***************************************************************************)
(* C17.  The minute adjustment works on the date-repaired value of each of *)
(* the four time fields with the trip's one offset: with an offset other   *)
(* than 0 and a value fromisoformat accepts, the field is that time moved  *)
(* by the offset in minutes, across midnight where it must, seconds and    *)
(* UTC offset kept; with offset 0, or a value that is empty, absent or not *)
(* parseable, the field is the date-repaired value as it is.               *)
(***************************************************************************)
C17_MinuteAdjustment ==
    Parsed =>
        LET sources == Sources IN
        \A at \in OutTrips : \A f \in TimeFields :
            LET repaired == _fix_date(Upstream(From(sources, at), f),
                                      Prefix(From(sources, at).date, 10))
                offset == Offset(From(sources, at))
                field == Out(at)[f[1]]
            IN  IF offset # 0 /\ Truthy(repaired) /\ fromisoformat(repaired).ok
                THEN LET was == fromisoformat(repaired)
                         now == fromisoformat(field)
                     IN  /\ now.ok
                         /\ WallMinutes(now) = WallMinutes(was) + offset
                         /\ now.second = was.second
                         /\ now.aware = was.aware
                         /\ now.utcoffset = was.utcoffset
                ELSE field = repaired

\* 08:15 with an offset of -10 gives 08:05 on the day's date.
C17_Witness ==
    /\ Parsed
    /\ OutTrips = {<< 1, 1 >>}
    /\ Src(<< 1, 1 >>).date = "2024-03-10T00:00:00"
    /\ Upstream(Src(<< 1, 1 >>), << "pickup_time", "pickUpTime" >>)
            = "1899-12-30T08:15:00"
    /\ Offset(Src(<< 1, 1 >>)) = -10
    /\ Out(<< 1, 1 >>).pickup_time = "2024-03-10T08:05:00"
    /\ Out(<< 1, 1 >>).start_time = "2024-03-10T06:50:00"
    /\ Out(<< 1, 1 >>).finish_time = "2024-03-10T16:20:00"

\* 23:55 on the last day of the year with an offset of 10 gives 00:05 on
\* the first day of the next.
C17_WitnessMidnight ==
    /\ Parsed
    /\ OutTrips = {<< 1, 1 >>}
    /\ Src(<< 1, 1 >>).date = "2024-12-31"
    /\ Offset(Src(<< 1, 1 >>)) = 10
    /\ Upstream(Src(<< 1, 1 >>), << "pickup_time", "pickUpTime" >>)
            = "1899-12-30T23:55:00Z"
    /\ Out(<< 1, 1 >>).pickup_time = "2025-01-01T00:05:00+00:00"

\* A value that is not parseable, left as the date repair gave it.
C17_WitnessUnparseable ==
    /\ Parsed
    /\ OutTrips = {<< 1, 1 >>}
    /\ Src(<< 1, 1 >>).date = "2024-12-31"
    /\ Offset(Src(<< 1, 1 >>)) = 10
    /\ Out(<< 1, 1 >>).dropoff_time = "2024-12-31ool"

\* The keys of a Trip record and the upstream key each is read from.
TripFields ==
    { << "name", "name" >>, << "bus_number", "busNumber" >>,
      << "pickup_stop_name", "pickUpStopName" >>,
      << "dropoff_stop_name", "dropOffStopName" >>,
      << "vehicle_id", "vehicleId" >> }
TripKeys ==
    {f[1] : f \in TripFields \cup TimeFields} \cup {"to_school"}
AbsentUpstream(src, key) == key \notin DOMAIN src.trip.fields

(***************************************************************************)
(* C18 as claimed.  Every Trip has the ten fields, to_school False when    *)
(* absent upstream and every other field, the four time fields included,   *)
(* "" when absent upstream; no field is None.                              *)
(***************************************************************************)
C18_AsClaimed ==
    Parsed =>
        LET sources == Sources IN
        \A at \in OutTrips :
            /\ DOMAIN Out(at) = TripKeys
            /\ AbsentUpstream(From(sources, at), "toSchool")
                  => Out(at).to_school = FALSE
            /\ \A f \in TripFields \cup TimeFields :
                  /\ AbsentUpstream(From(sources, at), f[2]) => Out(at)[f[1]] = ""
                  /\ Out(at)[f[1]] # None

(***************************************************************************)
(* C18.  Every Trip has the fixed set of ten fields; to_school is False    *)
(* when absent upstream; name, bus_number, the two stop names and          *)
(* vehicle_id are "" when absent upstream; each of the four time fields is *)
(* None when absent upstream, and only then.                               *)
(***************************************************************************)
C18_TripFields ==
    Parsed =>
        LET sources == Sources IN
        \A at \in OutTrips :
            /\ DOMAIN Out(at) = TripKeys
            /\ AbsentUpstream(From(sources, at), "toSchool")
                  => Out(at).to_school = FALSE
            /\ \A f \in TripFields :
                  /\ AbsentUpstream(From(sources, at), f[2]) => Out(at)[f[1]] = ""
                  /\ Out(at)[f[1]] # None
            /\ \A f \in TimeFields :
                  AbsentUpstream(From(sources, at), f[2]) <=> Out(at)[f[1]] = None

\* A trip the upstream sent without any field.
C18_Witness ==
    /\ Parsed
    /\ OutTrips = {<< 1, 1 >>}
    /\ DOMAIN Src(<< 1, 1 >>).trip.fields = {}
    /\ Out(<< 1, 1 >>).name = "" /\ Out(<< 1, 1 >>).vehicle_id = ""
    /\ Out(<< 1, 1 >>).to_school = FALSE
    /\ Out(<< 1, 1 >>).pickup_time = None
    /\ Out(<< 1, 1 >>).finish_time = None

(***************************************************************************)
(* The sensors' choice of the next trip (sensor.py 107-181).               *)
(***************************************************************************)
\* dt_util.DEFAULT_TIME_ZONE as a UTC offset in minutes: UTC, what Home
\* Assistant starts with.
DEFAULT_TIME_ZONE == 0

\* Minutes since the start of the calendar in UTC.
utc_minutes(dt) ==
    Ordinal(dt.year, dt.month, dt.day) * 1440 + dt.hour * 60 + dt.minute
        - dt.utcoffset

\* a < b for two aware datetimes: the instants compared.
earlier(a, b) ==
    \/ utc_minutes(a) < utc_minutes(b)
    \/ utc_minutes(a) = utc_minutes(b) /\ a.second < b.second

\* _parse_datetime, 107-118: None (NotParsed) for a falsy or refused value,
\* else an aware datetime.
_parse_datetime(time_str) ==
    IF ~Truthy(time_str) THEN NotParsed
    ELSE LET dt == fromisoformat(Replace(time_str, "Z", "+00:00"))
         IN  IF ~dt.ok THEN NotParsed
             ELSE IF ~dt.aware
             THEN [dt EXCEPT !.aware = TRUE, !.utcoffset = DEFAULT_TIME_ZONE]
             ELSE dt

\* The `to_school` argument: True, False or None.
PyBool(b) == IF b THEN "True" ELSE "False"

\* 153-156: the time a trip is judged by.
trip_time_str(trip, to_school) ==
    IF to_school = "True" \/ (to_school = None /\ trip.to_school)
    THEN trip.pickup_time
    ELSE IF Truthy(trip.dropoff_time) THEN trip.dropoff_time
    ELSE trip.pickup_time

\* A trip at the very instant of `now` taken for a coming one.
is_after_or_at(trip_time, now) == ~earlier(trip_time, now)

\* 166: trip_time > now.
is_after(trip_time, now) == earlier(now, trip_time)

\* 147-169: the loop from trip i on; next_trip is the position of the trip
\* held so far (0: None).
RECURSIVE next_trip_from(_, _, _, _, _)
next_trip_from(trips, i, now, to_school, next_trip) ==
    IF i > Len(trips) THEN next_trip
    ELSE LET trip == trips[i]
             trip_time == _parse_datetime(trip_time_str(trip, to_school))
             next_time == _parse_datetime(
                              trip_time_str(trips[next_trip], to_school))
         IN  IF to_school # None /\ PyBool(trip.to_school) # to_school
             THEN next_trip_from(trips, i + 1, now, to_school, next_trip)
             ELSE IF ~trip_time.ok
             THEN next_trip_from(trips, i + 1, now, to_school, next_trip)
             ELSE IF is_after(trip_time, now)
                     /\ (next_trip = 0
                         \/ earlier(trip_time, next_time))
             THEN next_trip_from(trips, i + 1, now, to_school, i)
             ELSE next_trip_from(trips, i + 1, now, to_school, next_trip)

\* _get_next_trip, 130-181: the position in the student's trips of the trip
\* returned, 0 for None.
_get_next_trip(student, now, to_school) ==
    IF ~student.found THEN 0
    ELSE next_trip_from(student.trips, 1, now, to_school, 0)

\* StopfinderNextPickupSensor.native_value, 212-222, once its call
\* _get_next_trip(to_school=True) has returned `trip` (a position, 0 for
\* None): the trip's pickup time, parsed; None without a trip.
next_pickup_native_value(student, trip) ==
    IF trip = 0 THEN NotParsed
    ELSE _parse_datetime(student.trips[trip].pickup_time)

\* StopfinderNextDropoffSensor.native_value, 265-275, once its call
\* _get_next_trip(to_school=False) has returned `trip`: the trip's drop-off
\* time, parsed; None without a trip.
next_dropoff_native_value(student, trip) ==
    IF trip = 0 THEN NotParsed
    ELSE _parse_datetime(student.trips[trip].dropoff_time)

(***************************************************************************)
(* The choice studied on its own: a student's trips, a clock and a         *)
(* direction.                                                              *)
(***************************************************************************)
MaxTrips == 2

\* dt_util.now().
Now == fromisoformat("2024-03-10T08:30:00+00:00")

PickupTimes ==
    { None, "not yet known", "2024-03-10T08:30:00", "2024-03-10T09:00:00" }
DropoffTimes == { "", "2024-03-10T08:00:00", "2024-03-10T10:00:00Z" }
TripRecords ==
    [to_school : BOOLEAN, pickup_time : PickupTimes, dropoff_time : DropoffTimes]

\* _get_student_data, 120-128: the student's record, or None.
Students ==
    { [found |-> FALSE, trips |-> << >>] } \cup
    { [found |-> TRUE, trips |-> t] :
        t \in UNION {[1..n -> TripRecords] : n \in 0..MaxTrips} }

Directions == { "True", "False", None }

InitNext ==
    /\ token = None
    /\ client_id = None
    /\ api_base_url = None
    /\ op = "none"
    /\ pc = "select"
    /\ dates = NoDates
    /\ url = None
    /\ trace = <<>>
    /\ last = Answered("none", NoAnswer)
    /\ first_status = 0
    /\ result = NoCall
    /\ exc = NoErr
    /\ granted = None
    /\ entry = [token |-> None, client_id |-> None, api_base_url |-> None]
    /\ calls = 0
    /\ input \in [student : Students, to_school : Directions]
    /\ output = None
    /\ previous = << >>

\* _get_next_trip(to_school), 130-181.
get_next_trip ==
    /\ pc = "select"
    /\ output' = _get_next_trip(input.student, Now, input.to_school)
    /\ pc' = "selected"
    /\ UNCHANGED << token, client_id, api_base_url, op, dates, url, trace, last,
                    first_status, result, exc, granted, entry, calls, input,
                    previous >>

\* The state of the "Next Pickup" sensor read (210-222): the selection for
\* to_school=True has returned, its trip's pickup time is parsed.
read_next_pickup ==
    /\ pc = "selected"
    /\ input.to_school = "True"
    /\ output' = next_pickup_native_value(input.student, output)
    /\ pc' = "next_pickup"
    /\ UNCHANGED << token, client_id, api_base_url, op, dates, url, trace, last,
                    first_status, result, exc, granted, entry, calls, input,
                    previous >>

\* The state of the "Next Drop-off" sensor read (263-275): the selection for
\* to_school=False has returned, its trip's drop-off time is parsed.
read_next_dropoff ==
    /\ pc = "selected"
    /\ input.to_school = "False"
    /\ output' = next_dropoff_native_value(input.student, output)
    /\ pc' = "next_dropoff"
    /\ UNCHANGED << token, client_id, api_base_url, op, dates, url, trace, last,
                    first_status, result, exc, granted, entry, calls, input,
                    previous >>

NextTrip ==
    \/ get_next_trip
    \/ read_next_pickup
    \/ read_next_dropoff

SpecNext == InitNext /\ [][NextTrip]_vars

(***************************************************************************)
(* Reading a choice.                                                       *)
(***************************************************************************)
Selected == pc = "selected"

\* An instant in seconds from the clock's own start, for comparing.
Instant(dt) ==
    (utc_minutes(dt) - utc_minutes(Now)) * 60 + dt.second - Now.second

\* The time a trip counts with: pickup for a to-school trip; for a
\* from-school trip drop-off, or pickup when there is no drop-off.
CountedTime(trip) ==
    IF trip.to_school THEN trip.pickup_time
    ELSE IF trip.dropoff_time \in {None, ""} THEN trip.pickup_time
    ELSE trip.dropoff_time

\* Trip i passes the direction filter, its time is parseable and lies
\* strictly after now.
Qualifies(i) ==
    LET trip == input.student.trips[i]
        at == _parse_datetime(CountedTime(trip))
    IN  /\ input.to_school = None \/ input.to_school = PyBool(trip.to_school)
        /\ at.ok
        /\ Instant(at) > Instant(Now)

Qualifying == {i \in 1..Len(input.student.trips) : Qualifies(i)}

CountedSeconds(i) ==
    Instant(_parse_datetime(CountedTime(input.student.trips[i])))

(***************************************************************************)
(* C19.  Next-trip selection: among the student's trips that pass the      *)
(* direction filter (all of them for "either"), each counted with its      *)
(* pickup time if to-school and with its drop-off time, or pickup time     *)
(* when it has no drop-off time, if from-school, the trip returned is the  *)
(* one of least parsed time among those strictly after now, the earliest   *)
(* in list order among equals; a trip whose time is unparseable or not     *)
(* after now is never returned; None is returned exactly when no trip      *)
(* qualifies.                                                              *)
(***************************************************************************)
C19_NextTrip ==
    Selected =>
        /\ output = 0 <=> Qualifying = {}
        /\ output # 0 =>
              /\ output \in Qualifying
              /\ \A j \in Qualifying :
                    /\ CountedSeconds(output) <= CountedSeconds(j)
                    /\ CountedSeconds(j) = CountedSeconds(output) => output <= j

\* Two from-school trips counted at 09:00 by their pickup times for want of
\* a drop-off time: the first is returned.
C19_Witness ==
    /\ Selected
    /\ input.to_school = "False"
    /\ Len(input.student.trips) = 2
    /\ input.student.trips[1].dropoff_time = ""
    /\ input.student.trips[1].pickup_time = "2024-03-10T09:00:00"
    /\ input.student.trips[2].dropoff_time = ""
    /\ input.student.trips[2].pickup_time = "2024-03-10T09:00:00"
    /\ Qualifying = {1, 2}
    /\ output = 1

\* The later trip of the list is the sooner one.
C19_WitnessSecond ==
    /\ Selected
    /\ input.to_school = None
    /\ Qualifying = {1, 2}
    /\ CountedSeconds(2) < CountedSeconds(1)
    /\ output = 2

\* Trips there are, none of them qualifies: None.
C19_WitnessNone ==
    /\ Selected
    /\ Len(input.student.trips) = 2
    /\ input.student.trips[1].pickup_time = "2024-03-10T08:30:00"
    /\ input.student.trips[1].to_school
    /\ output = 0

\* An update step of the coordinator has ended.
Polled == op = "async_update_data" /\ pc = "idle"

(***************************************************************************)
(* C20.  The coordinator's update step ends with UpdateFailed whenever     *)
(* get_schedules raised StopfinderConnectionError, StopfinderAuthError or  *)
(* a plain StopfinderApiError, and otherwise returns a mapping with the    *)
(* one key "students", bound to the normalisation of the schedule response *)
(* this very step received.                                                *)
(***************************************************************************)
C20_UpdateStep ==
    Polled =>
        /\ exc.kind \in {StopfinderConnectionError, StopfinderAuthError,
                         StopfinderApiError}
              => result.kind = UpdateFailed
        /\ result.kind = UpdateFailed => exc # NoErr
        /\ result.kind = "return" <=> exc = NoErr
        /\ exc = NoErr =>
              /\ last.kind = "students"
              /\ last.transport = "response" /\ last.status = 200
              /\ DOMAIN result.value = {"students"}
              /\ result.value.students = _parse_schedule_response(last.body)

\* An update failed by the StopfinderAuthError of the token POST.
C20_Witness ==
    /\ Polled
    /\ exc.kind = StopfinderAuthError
    /\ result.kind = UpdateFailed

\* An update failed by a plain StopfinderApiError, and one failed by a
\* StopfinderConnectionError.
C20_WitnessApiError ==
    Polled /\ exc.kind = StopfinderApiError /\ result.kind = UpdateFailed
C20_WitnessConnectionError ==
    Polled /\ exc.kind = StopfinderConnectionError /\ result.kind = UpdateFailed

\* A third poll returning the one student of its own response.
C20_WitnessData ==
    /\ Polled
    /\ calls = 3
    /\ result.kind = "return"
    /\ Len(result.value.students) = 1
    /\ result.value.students[1].rider_id = "R2"
    /\ result.value.students[1].trips[1].dropoff_time = "2024-03-11T15:30:00"

\* The student entry in which a rider id is met for the first time.
FirstEntry(rider) ==
    LET entries == Entries
        i == CHOOSE i \in 1..Len(entries) :
                /\ entries[i].rider = rider
                /\ \A j \in 1..(i - 1) : entries[j].rider # rider
    IN  entries[i].student

(***************************************************************************)
(* C22.  A Student's first_name, last_name, grade and school are those of  *)
(* the first student entry of the payload with its rider id; later entries *)
(* with the same rider id, on the same or a later day, leave them as they  *)
(* are and add their trips.                                                *)
(***************************************************************************)
C22_IdentityFirstSight ==
    Parsed =>
        \A a \in 1..Len(output) :
            LET first == FirstEntry(output[a].rider_id)
            IN  /\ output[a].first_name = DictGetOr(first, "firstName", "")
                /\ output[a].last_name = DictGetOr(first, "lastName", "")
                /\ output[a].grade = DictGetOr(first, "grade", "")
                /\ output[a].school = DictGetOr(first, "school", "")
                /\ Len(output[a].trips)
                      = Len(SourceTrips(output[a].rider_id))

\* R1 on the first day and, under other names, on the second: the names
\* of the first day stay, the trips of both days are there.
C22_Witness ==
    /\ Parsed
    /\ Len(Entries) = 2
    /\ Entries[1].rider = "R1" /\ Entries[2].rider = "R1"
    /\ DictGet(Entries[2].student, "firstName") = "first-d2s1"
    /\ DictGet(Entries[2].student, "grade") = "2"
    /\ Len(output) = 1
    /\ output[1].first_name = "first-d1s1"
    /\ output[1].grade = "1"
    /\ output[1].school = "school-d1"
    /\ Len(output[1].trips) = 4

\* The (rider id, trip name) pairs and the rider ids a schedule body holds.
SentRiders(body) ==
    IF body.type # "list" THEN {}
    ELSE UNION {{DictGetOr(st, "riderId", "") :
                    st \in {DictGetOr(body.items[i], "studentSchedules", << >>)[j] :
                              j \in 1..Len(DictGetOr(body.items[i],
                                                     "studentSchedules", << >>))}} :
                i \in 1..Len(body.items)}
SentTrips(body) ==
    IF body.type # "list" THEN {}
    ELSE UNION {UNION {{[rider |-> DictGetOr(sts[j], "riderId", ""),
                         name |-> DictGetOr(DictGetOr(sts[j], "trips", << >>)[k],
                                            "name", "")] :
                          k \in 1..Len(DictGetOr(sts[j], "trips", << >>))} :
                       j \in 1..Len(sts)} :
                sts \in {DictGetOr(body.items[i], "studentSchedules", << >>) :
                           i \in 1..Len(body.items)}}

\* A poll has returned its mapping.
PollReturned == Polled /\ result.kind = "return"

(***************************************************************************)
(* C21.  What a poll returns is made of the schedule response of that poll *)
(* alone: every Student returned has its rider id in that response's body  *)
(* and every trip returned is a trip of that rider in that body, whatever  *)
(* earlier polls returned; nothing of an earlier poll comes back unless    *)
(* the later body holds it.                                                *)
(***************************************************************************)
C21_NoAccumulator ==
    PollReturned =>
        LET students == result.value.students
        IN  /\ {students[a].rider_id : a \in 1..Len(students)}
                  = SentRiders(last.body)
            /\ \A a \in 1..Len(students) : \A k \in 1..Len(students[a].trips) :
                  [rider |-> students[a].rider_id,
                   name |-> students[a].trips[k].name] \in SentTrips(last.body)

\* The earlier poll returned R1; this one, whose body holds R2 alone,
\* returns R2 alone.
C21_Witness ==
    /\ PollReturned
    /\ Len(previous) = 1
    /\ previous[1].rider_id = "R1"
    /\ SentRiders(last.body) = {"R2"}
    /\ Len(result.value.students) = 1
    /\ result.value.students[1].rider_id = "R2"

\* The earlier poll returned R1; this one, whose body holds no day, returns
\* no student.
C21_WitnessEmpty ==
    /\ PollReturned
    /\ Len(previous) = 1
    /\ SentRiders(last.body) = {}
    /\ Len(result.value.students) = 0

\* The upstream's latest answer is not that of an upstream behaving
\* correctly: a discovery, token POST or client-id GET that fails or yields
\* no client id, a schedule request that meets a transport failure, or a
\* schedule request carrying a token and a client id obtained in this very
\* call that is answered other than 200.
FreshlyAuthenticated(req, i) ==
    /\ \E j \in 1..(i - 1) : trace[j].kind = "apiversions"
    /\ Truthy(Header(req.headers, "Token"))
    /\ Truthy(Header(req.headers, "X-Client-Keys"))

LatestAnswerFaulty ==
    \/ LowerStepError # NoErr
    \/ /\ last.kind = "apiversions"
       /\ ~Truthy(client_id_result(last).value)
    \/ /\ last.kind = "students"
       /\ \/ last.transport # "response"
          \/ /\ last.status # 200
             /\ FreshlyAuthenticated(trace[Len(trace)], Len(trace))

\* An earlier answer of the call gave no client id: a schedule request went
\* out after an accepted client-id GET and without X-Client-Keys.
EarlierAnswerFaulty ==
    \E i \in 1..Len(trace) :
        /\ trace[i].kind = "students"
        /\ i > 1 /\ trace[i - 1].kind = "apiversions"
        /\ ~Truthy(Header(trace[i].headers, "X-Client-Keys"))

(***************************************************************************)
(* C23.  Whatever calls came before and however they ended, a              *)
(* get_schedules call ends without the schedules only if the upstream      *)
(* misbehaved during that call: with discovery, token POST and client-id   *)
(* GET succeeding and a freshly authenticated schedule request answered    *)
(* 200, the call returns the schedules.                                    *)
(***************************************************************************)
C23_Recovers ==
    (InGetSchedules /\ pc = "idle" /\ result.kind # "return") =>
        (LatestAnswerFaulty \/ EarlierAnswerFaulty)

\* A call entered with a token and no client id, left by a failed
\* authenticate: the first request is refused, the retry returns.
C23_Witness ==
    /\ InGetSchedules /\ pc = "idle"
    /\ Truthy(entry.token) /\ entry.client_id = None
    /\ first_status = 401
    /\ ~LatestAnswerFaulty /\ ~EarlierAnswerFaulty
    /\ result.kind = "return"

\* A call entered with nothing but the base URL, after two failed calls.
C23_WitnessAfterFailures ==
    /\ InGetSchedules /\ pc = "idle"
    /\ calls = 3
    /\ entry.token = None /\ Truthy(entry.api_base_url)
    /\ Kinds = << "tokens", "apiversions", "students" >>
    /\ result.kind = "return"

\* authenticate() has just returned True, to its caller or inside
\* test_connection or get_schedules.
AuthenticateSucceeded == ChainCompleted /\ exc = NoErr

(***************************************************************************)
(* C24 as claimed.  Whenever authenticate returns True the session holds a *)
(* non-empty token and a client_id that is not None.                       *)
(***************************************************************************)
C24_AsClaimed ==
    AuthenticateReturned => (Truthy(token) /\ client_id # None)

(***************************************************************************)
(* C24.  Whenever authenticate returns True the session holds a non-empty  *)
(* token; its client_id is the clientId of the first element of the        *)
(* apiversions list, hence None exactly when that element has no clientId. *)
(***************************************************************************)
C24_SessionAfterAuthenticate ==
    AuthenticateSucceeded =>
        /\ Truthy(token)
        /\ client_id # None <=>
              "clientId" \in DOMAIN last.body.items[1].fields
        /\ client_id # None =>
              client_id = last.body.items[1].fields["clientId"]

\* authenticate returning True and leaving no client id.
C24_Witness ==
    /\ AuthenticateReturned
    /\ AuthenticateSucceeded
    /\ Truthy(token)
    /\ client_id = None

\* authenticate returning True and leaving a token and a client id.
C24_WitnessBoth ==
    /\ AuthenticateReturned
    /\ token = "abc"
    /\ client_id = "c1"

\* A round trip of the running call can be taken.
RoundTrip ==
    \/ get_stopfinder_base_url
    \/ _authenticate
    \/ _get_client_id
    \/ get_schedules
    \/ get_schedules_retry

(***************************************************************************)
(* C25.  A get_schedules call issues at most one discovery request, two    *)
(* token POSTs, two client-id GETs and two schedule GETs, whatever the     *)
(* upstream answers, and has ended by its seventh round trip; until it has *)
(* ended its next round trip can be taken.                                 *)
(***************************************************************************)
C25_BoundedRoundTrips ==
    InGetSchedules =>
        /\ Count("discover") <= 1
        /\ Count("tokens") <= 2
        /\ Count("apiversions") <= 2
        /\ Count("students") <= 2
        /\ Len(trace) = Count("discover") + Count("tokens")
                          + Count("apiversions") + Count("students")
        /\ pc # "idle" => (Len(trace) <= 6 /\ ENABLED RoundTrip)
        /\ pc = "idle" => result.kind # "running"

\* A call of seven round trips: the chain with discovery, a refused
\* request, the chain again, the retry.
C25_Witness ==
    /\ InGetSchedules /\ pc = "idle"
    /\ Kinds = << "discover", "tokens", "apiversions", "students",
                  "tokens", "apiversions", "students" >>


(***************************************************************************)
(* C28.  In every reachable state of a session a stored token comes with a *)
(* stored base URL: a token is written only by the token POST, which is    *)
(* sent to the base URL.  So the check of get_schedules that raises "API   *)
(* base URL not set" never fires.                                          *)
(***************************************************************************)
C28_TokenImpliesBaseUrl ==
    /\ token # None => Truthy(api_base_url)
    /\ exc.msg # "API base URL not set"
    /\ result.kind \notin {"return", "running", "nocall"}
           => result.msg # "API base URL not set"

\* A get_schedules call entered with a token passes the base-URL check and
\* sends its request without running the chain.
C28_Witness ==
    /\ InGetSchedules
    /\ Truthy(entry.token) /\ Truthy(entry.api_base_url)
    /\ Kinds = << "students" >>
    /\ Truthy(token)

\* A get_schedules call entered with neither reaches the check only after
\* its chain has stored both.
C28_WitnessFresh ==
    /\ InGetSchedules
    /\ entry.token = None /\ entry.api_base_url = None
    /\ Kinds = << "discover", "tokens", "apiversions", "students" >>
    /\ Truthy(token) /\ Truthy(api_base_url)


(***************************************************************************)
(* Reading the two sensors.                                                *)
(***************************************************************************)
\* The trip the selection returns for a direction (0: none).
SelectedFor(to_school) == _get_next_trip(input.student, Now, to_school)

\* The reading is a timestamp strictly after now.
ReadingAfterNow == output.ok /\ Instant(output) > 0

(***************************************************************************)
(* C26.  Whenever the from-school selection returns a trip, the reading of *)
(* the next drop-off sensor is a timestamp strictly after now, never none  *)
(* and never a past time; whenever the to-school selection returns a trip, *)
(* the reading of the next pickup sensor is a timestamp strictly after     *)
(* now.                                                                    *)
(***************************************************************************)
C26_ReadingAfterNow ==
    /\ (pc = "next_dropoff" /\ SelectedFor("False") # 0) => ReadingAfterNow
    /\ (pc = "next_pickup" /\ SelectedFor("True") # 0) => ReadingAfterNow

\* What does hold of the two readings: the pickup reading is after now
\* whenever a to-school trip is selected, and the drop-off reading is after
\* now whenever the from-school trip selected has a drop-off time; a trip
\* selected by its pickup time for want of a drop-off time reads as none.
C26_ReadingOfSelectedTrip ==
    /\ (pc = "next_pickup" /\ SelectedFor("True") # 0) => ReadingAfterNow
    /\ (pc = "next_dropoff" /\ SelectedFor("False") # 0) =>
          LET trip == input.student.trips[SelectedFor("False")]
          IN  IF Truthy(trip.dropoff_time)
              THEN ReadingAfterNow
              ELSE output = NotParsed
    /\ (pc = "next_pickup" /\ SelectedFor("True") = 0) => output = NotParsed
    /\ (pc = "next_dropoff" /\ SelectedFor("False") = 0) => output = NotParsed

\* A from-school trip without a drop-off time, selected by its pickup time
\* of 09:00: the drop-off sensor reads none.
C26_WitnessNone ==
    /\ pc = "next_dropoff"
    /\ SelectedFor("False") = 1
    /\ input.student.trips[1].dropoff_time = ""
    /\ input.student.trips[1].pickup_time = "2024-03-10T09:00:00"
    /\ output = NotParsed

\* The same trip hiding a later from-school trip that has a drop-off time.
C26_WitnessHidden ==
    /\ pc = "next_dropoff"
    /\ Len(input.student.trips) = 2
    /\ SelectedFor("False") = 1
    /\ input.student.trips[1].dropoff_time = ""
    /\ ~input.student.trips[2].to_school
    /\ input.student.trips[2].dropoff_time = "2024-03-10T10:00:00Z"
    /\ output = NotParsed

\* A pickup reading and a drop-off reading after now.
C26_WitnessPickup ==
    /\ pc = "next_pickup" /\ SelectedFor("True") # 0 /\ ReadingAfterNow

C26_WitnessDropoff ==
    /\ pc = "next_dropoff" /\ SelectedFor("False") # 0 /\ ReadingAfterNow


(***************************************************************************)
(* Reading a configuration step.                                           *)
(***************************************************************************)
\* A submitted step has ended with a result for the user.
StepEnded == op = "async_step_user" /\ pc = "idle" /\ result.kind = "return"

\* The step's client was built and its authenticate() entered.
StepAuthenticated == op = "async_step_user" /\ Len(trace) > 0

\* The form re-shown with the one error `code`.
FormWith(code) ==
    /\ result.value.type = "form"
    /\ DOMAIN result.value.errors = {"base"}
    /\ result.value.errors["base"] = code

(***************************************************************************)
(* C27.  The configuration step creates an entry only when its             *)
(* authenticate has succeeded, and then it does; when authenticate fails   *)
(* the step shows the form again with exactly one error: invalid_auth for  *)
(* a StopfinderAuthError, cannot_connect for a StopfinderConnectionError   *)
(* and unknown for every other failure, the plain StopfinderApiError of    *)
(* the client-id fetch included.                                           *)
(***************************************************************************)
C27_StepOutcome ==
    /\ (op = "async_step_user" /\ pc = "idle" /\ ChainCompleted) =>
          /\ StepEnded
          /\ result.value.type = "create_entry"
          /\ result.value.data = input
    /\ (StepEnded /\ result.value.type = "create_entry") =>
          /\ ChainCompleted
          /\ LowerStepError = NoErr
          /\ Kinds = << "discover", "tokens", "apiversions" >>
    /\ (op = "async_step_user" /\ pc = "idle" /\ StepAuthenticated
          /\ LowerStepError # NoErr) =>
          /\ StepEnded
          /\ LowerStepError.kind = StopfinderAuthError
                => FormWith("invalid_auth")
          /\ LowerStepError.kind = StopfinderConnectionError
                => FormWith("cannot_connect")
          /\ LowerStepError.kind
                \notin {StopfinderAuthError, StopfinderConnectionError}
                => FormWith("unknown")

\* The client-id fetch refused with a 500: a plain StopfinderApiError, shown
\* as unknown.
C27_Witness ==
    /\ StepEnded
    /\ last.kind = "apiversions" /\ last.status = 500
    /\ LowerStepError.kind = StopfinderApiError
    /\ FormWith("unknown")

C27_WitnessInvalidAuth ==
    /\ StepEnded /\ last.kind = "tokens" /\ last.status = 401
    /\ FormWith("invalid_auth")

C27_WitnessCannotConnect ==
    /\ StepEnded /\ last.kind = "discover" /\ last.transport = "ClientError"
    /\ FormWith("cannot_connect")

C27_WitnessTimeout ==
    /\ StepEnded /\ LowerStepError.kind = TransportTimeout
    /\ FormWith("unknown")

\* An entry created on the third submission, after two refused ones.
C27_WitnessEntry ==
    /\ StepEnded /\ calls = 3
    /\ result.value.type = "create_entry"
    /\ result.value.title = "Parent@Example.com"

=============================================================================
